---- MODULE Spec2Model ----
(***************************************************************************)
(* A model of the UDP acquisition of drs4 (src/drs4/daq/udp.py): the       *)
(* supervisor auto(), which submits four dump() workers to a process pool, *)
(* waits for the duration, sets the shared cancellation event and decodes  *)
(* the four VDIF files, and the worker dump(), which checks its output     *)
(* path, opens the file and a multicast socket and appends every           *)
(* full-length datagram to the file until it observes the event.           *)
(*                                                                         *)
(* Every process is a position (pc of a worker, apc of the supervisor)     *)
(* and each action is one step between two points at which another         *)
(* process can observe or change the shared state: the file system and     *)
(* the cancellation event.                                                 *)
(***************************************************************************)
EXTENDS Integers, Sequences, FiniteSets, TLC

\* ---------------------------------------------------------------- constants

\* src/drs4/specs/vdif.py:28-30
VDIF_HEADER_BYTES == 32
VDIF_DATA_BYTES == 1024
VDIF_FRAME_BYTES == VDIF_HEADER_BYTES + VDIF_DATA_BYTES

\* ProcessPoolExecutor(4) and the four executor.submit(dump, ...) calls.
NumWorkers == 4

\* ------------------------------------------------------------------- bounds

\* Datagrams the network delivers to the four workers of one auto() call, in
\* total.
MaxDatagrams == 1

\* Datagrams the network delivers to two direct dump() calls, in total.
MaxDatagramsDump == 2

\* The duration argument of auto(), in seconds.
Duration == 1

\* Datagrams the network delivers to two dump() calls on two paths, in total.
MaxDatagramsCapture == 4

\* Frames of a capture file whose headers vary in every field.
MaxFramesHeader == 2

\* Frames of a capture file whose frame numbers vary up to 19.
MaxFramesInfer == 3

\* Frames of a capture file of one second, in any order, repeats included.
MaxFramesJoin == 4

\* Seconds a capture file of a sideband spans.
MaxSeconds == 2

\* Datagrams the network delivers to the four workers of auto() once all of
\* them are in their receive loops.
MaxDatagramsLoop == 2

\* The largest number of frames of a file in the checks of the timestamps of
\* frame pairs.
MaxFramesPair == 2

\* The largest number of characters of a command file.
MaxRows == 2
MaxChars == 4

\* ------------------------------------------------------------------ helpers

Workers == 1..NumWorkers

\* The output paths; in auto() worker w writes VDIF_FORMAT.format(obsid, chassis, w).
Paths == 1..NumWorkers

\* Lengths of the datagrams the network may deliver: one byte short of a
\* frame, exactly a frame, one byte more than a frame.
DatagramLengths == {VDIF_FRAME_BYTES - 1, VDIF_FRAME_BYTES, VDIF_FRAME_BYTES + 1}

Min(a, b) == IF a <= b THEN a ELSE b

\* A frame in a file: `by` the worker that wrote it (0: an earlier capture,
\* -1: a hole of zero bytes left by a write beyond the end of the file),
\* `no` the index of the datagram among those the worker received,
\* `bytes` the number of bytes written.
Frame(w, k, n) == [by |-> w, no |-> k, bytes |-> n]

HoleFrame == Frame(-1, 0, VDIF_FRAME_BYTES)

OldFrame == Frame(0, 1, VDIF_FRAME_BYTES)

NoFile == [exists |-> FALSE, data |-> <<>>]

\* A file left by an earlier capture at the same path.
OldFile == [exists |-> TRUE, data |-> <<OldFrame>>]

\* -------------------------------------------------------------------- state

VARIABLES
    pc,          \* worker -> position in dump(); "idle": no such dump() call
    err,         \* worker -> the exception dump() raised, "none" otherwise
    vdif,        \* worker -> the output path passed to dump()
    overwrite,   \* the overwrite argument
    hasTimeout,  \* whether the timeout argument is a number (not None)
    useCancel,   \* whether an Event is passed as cancel (auto() always does)
    quota,       \* datagrams the network delivers during the run
    lengths,     \* the lengths these datagrams may have
    files,       \* path -> [exists, data]: the file system
    fileOpen,    \* worker -> it holds its output file open
    sockOpen,    \* worker -> it holds its socket open
    rx,          \* worker -> lengths of the datagrams delivered to it, in order
    cancel,      \* the shared Event: is it set
    cancelSets,  \* how many times cancel.set() has been called
    cancelBy,    \* who called cancel.set(): "none", "auto" or "dump"
    apc,         \* position of auto(); "none": no auto() call
    aerr,        \* the exception auto() raises, "none" otherwise
    elapsed,     \* seconds auto() has slept
    nread,       \* how many of the two interfaces auto() has decoded
    dargs,       \* the arguments of the call under way (open_vdif, open_vdifs,
                 \* the decoding of auto(), cw.on)
    dpc,         \* position of the decoding call; "none": no such call
    da,          \* the arrays open_vdif has returned so far
    derr,        \* the exception the decoding call raised, "none" otherwise
    ds,          \* the dataset open_vdifs has returned
    aargs,       \* the arguments of auto() that its checks look at
    commands,    \* how many settings commands have been run on the chassis
    text,        \* the characters of the command file
    autorecv,    \* the argument autorecv of the two SCPI calls
    call,        \* the SCPI call under way: "lines", "file", "on"; "done", "none"
    pending,     \* the commands the loop of the call has still to take
    connected,   \* the socket of the call is connected
    wire         \* call -> what its socket has sent and received, in order

wvars == <<pc, err, fileOpen, sockOpen, rx>>

params == <<vdif, overwrite, hasTimeout, useCancel, quota, lengths>>

avars == <<apc, aerr, elapsed, nread>>

cvars == <<cancel, cancelSets, cancelBy>>

dvars == <<dargs, dpc, da, derr, ds>>

svars == <<aargs, commands>>

qvars == <<text, autorecv, call, pending, connected, wire>>

vars == <<wvars, params, avars, cvars, files, dvars, svars, qvars, qvars>>

Terminated(w) == pc[w] \in {"done", "failed"}

Running(w) == pc[w] \in {"start", "open", "bind", "loop", "recv"}

RECURSIVE SumLen(_)
SumLen(S) ==
    IF S = {} THEN 0
    ELSE LET w == CHOOSE x \in S : TRUE IN Len(rx[w]) + SumLen(S \ {w})

\* sock.recvfrom(bufsize): at most bufsize bytes of the datagram are returned,
\* the rest of a longer datagram is discarded.
recvfrom(len, bufsize) == Min(len, bufsize)

\* len(frame) == VDIF_FRAME_BYTES
IsFullFrame(n) == n = VDIF_FRAME_BYTES

\* The frames worker w has written: its position in its output file.
RECURSIVE Written(_)
Written(lens) ==
    IF lens = <<>> THEN 0
    ELSE Written(SubSeq(lens, 1, Len(lens) - 1))
         + (IF IsFullFrame(recvfrom(lens[Len(lens)], VDIF_FRAME_BYTES)) THEN 1 ELSE 0)

\* file.write(frame) at position pos of a file opened with "wb": the frame
\* replaces what is at pos, or extends the file (after a hole, when another
\* writer has truncated the file below pos).
\* A faulty variant of WriteAt: the file is reopened with "wb" for every
\* frame, so each write replaces what the file held.
WriteTruncating(data, pos, frame) == <<frame>>

RECURSIVE WriteAt(_, _, _)
WriteAt(data, pos, frame) ==
    IF pos < Len(data) THEN [data EXCEPT ![pos + 1] = frame]
    ELSE IF pos = Len(data) THEN Append(data, frame)
    ELSE WriteAt(Append(data, HoleFrame), pos, frame)

\* not overwrite and Path(vdif).exists()
PathTaken(w) == ~overwrite /\ files[vdif[w]].exists

\* cancel is None or not cancel.is_set()
KeepDumping == ~useCancel \/ ~cancel

\* ------------------------------------------------------------------- dump()

\* A faulty variant of ExistsCheck: the file is opened for writing (and so
\* truncated) before the existence of the path is looked at.
ExistsCheckAfterOpen(w) ==
    /\ pc[w] = "start"
    /\ IF PathTaken(w)
       THEN /\ pc' = [pc EXCEPT ![w] = "failed"]
            /\ err' = [err EXCEPT ![w] = "FileExistsError"]
            /\ files' = [files EXCEPT ![vdif[w]].data = <<>>]
       ELSE /\ pc' = [pc EXCEPT ![w] = "open"]
            /\ err' = err
            /\ files' = files
    /\ UNCHANGED <<fileOpen, sockOpen, rx, params, avars, cvars, dvars, svars, qvars>>

\* if not overwrite and Path(vdif).exists(): raise FileExistsError(vdif)
ExistsCheck(w) ==
    /\ pc[w] = "start"
    /\ IF PathTaken(w)
       THEN /\ pc' = [pc EXCEPT ![w] = "failed"]
            /\ err' = [err EXCEPT ![w] = "FileExistsError"]
       ELSE /\ pc' = [pc EXCEPT ![w] = "open"]
            /\ err' = err
    /\ UNCHANGED <<fileOpen, sockOpen, rx, params, avars, cvars, files, dvars, svars, qvars>>

\* with open(vdif, "wb") as file, socket(type=SOCK_DGRAM) as sock: the file is
\* created or truncated.
OpenFile(w) ==
    /\ pc[w] = "open"
    /\ files' = [files EXCEPT ![vdif[w]] = [exists |-> TRUE, data |-> <<>>]]
    /\ fileOpen' = [fileOpen EXCEPT ![w] = TRUE]
    /\ sockOpen' = [sockOpen EXCEPT ![w] = TRUE]
    /\ pc' = [pc EXCEPT ![w] = "bind"]
    /\ UNCHANGED <<err, rx, params, avars, cvars, dvars, svars, qvars>>

\* A faulty variant of Close: the socket is not managed by the with statement
\* and stays open.
CloseFileOnly(w) ==
    /\ fileOpen' = [fileOpen EXCEPT ![w] = FALSE]
    /\ sockOpen' = sockOpen

\* Leaving the with statement closes the socket and the file.
Close(w) ==
    /\ fileOpen' = [fileOpen EXCEPT ![w] = FALSE]
    /\ sockOpen' = [sockOpen EXCEPT ![w] = FALSE]

\* A faulty variant of Raise: the exception of one worker breaks the pool and
\* ends every worker that is still running.
RaiseBreaksPool(w, e) ==
    /\ Close(w)
    /\ pc' = [v \in Workers |-> IF v = w \/ Running(v) THEN "failed" ELSE pc[v]]
    /\ err' = [err EXCEPT ![w] = e]

\* An exception raised inside the with statement: the worker's resources are
\* closed and the exception ends dump().
Raise(w, e) ==
    /\ Close(w)
    /\ pc' = [pc EXCEPT ![w] = "failed"]
    /\ err' = [err EXCEPT ![w] = e]

\* setsockopt, bind, setsockopt(IP_ADD_MEMBERSHIP), settimeout succeed.
BindOk(w) ==
    /\ pc[w] = "bind"
    /\ pc' = [pc EXCEPT ![w] = "loop"]
    /\ UNCHANGED <<err, fileOpen, sockOpen, rx, params, avars, cvars, files, dvars, svars, qvars>>

\* bind or the multicast join raises OSError.
BindError(w) ==
    /\ pc[w] = "bind"
    /\ Raise(w, "OSError")
    /\ UNCHANGED <<rx, params, avars, cvars, files, dvars, svars, qvars>>

\* A faulty variant of LoopEnter: a do-while loop, whose first iteration
\* receives before the event is looked at.
LoopEnterDoWhile(w) ==
    /\ pc[w] = "loop"
    /\ KeepDumping \/ rx[w] = <<>>
    /\ pc' = [pc EXCEPT ![w] = "recv"]
    /\ UNCHANGED <<err, fileOpen, sockOpen, rx, params, avars, cvars, files, dvars, svars, qvars>>

\* A faulty variant of LoopEnter: the event is never looked at.
LoopEnterUnchecked(w) ==
    /\ pc[w] = "loop"
    /\ pc' = [pc EXCEPT ![w] = "recv"]
    /\ UNCHANGED <<err, fileOpen, sockOpen, rx, params, avars, cvars, files, dvars, svars, qvars>>

\* while cancel is None or not cancel.is_set(): enter the body.
LoopEnter(w) ==
    /\ pc[w] = "loop"
    /\ KeepDumping
    /\ pc' = [pc EXCEPT ![w] = "recv"]
    /\ UNCHANGED <<err, fileOpen, sockOpen, rx, params, avars, cvars, files, dvars, svars, qvars>>

\* The while condition is false: "Finish dumping data", the with statement
\* is left and dump() returns.
LoopExit(w) ==
    /\ pc[w] = "loop"
    /\ ~KeepDumping
    /\ Close(w)
    /\ pc' = [pc EXCEPT ![w] = "done"]
    /\ UNCHANGED <<err, rx, params, avars, cvars, files, dvars, svars, qvars>>

\* frame, _ = sock.recvfrom(VDIF_FRAME_BYTES) returns a datagram of len bytes;
\* a full frame is written, anything else is logged as truncated.
Recv(w, len) ==
    /\ pc[w] = "recv"
    /\ SumLen(Workers) < quota
    /\ rx' = [rx EXCEPT ![w] = Append(@, len)]
    /\ LET n == recvfrom(len, VDIF_FRAME_BYTES)
           frame == Frame(w, Len(rx[w]) + 1, n)
       IN  IF IsFullFrame(n)
           THEN files' = [files EXCEPT ![vdif[w]].data =
                              WriteAt(@, Written(rx[w]), frame)]
           ELSE files' = files
    /\ pc' = [pc EXCEPT ![w] = "loop"]
    /\ UNCHANGED <<err, fileOpen, sockOpen, params, avars, cvars, dvars, svars, qvars>>

\* A faulty variant of RecvTimeout: sock.settimeout(timeout) is never called,
\* so no receive ever times out.
RecvNeverTimesOut(w) ==
    /\ pc[w] = "recv"
    /\ FALSE
    /\ Raise(w, "TimeoutError")
    /\ UNCHANGED <<rx, params, avars, cvars, files, dvars, svars, qvars>>

\* sock.recvfrom raises TimeoutError: no datagram within the timeout.
RecvTimeout(w) ==
    /\ pc[w] = "recv"
    /\ hasTimeout
    /\ Raise(w, "TimeoutError")
    /\ UNCHANGED <<rx, params, avars, cvars, files, dvars, svars, qvars>>

Dump(w) ==
    \/ ExistsCheck(w)
    \/ OpenFile(w)
    \/ BindOk(w)
    \/ BindError(w)
    \/ LoopEnter(w)
    \/ LoopExit(w)
    \/ \E len \in lengths : Recv(w, len)
    \/ RecvTimeout(w)

\* ------------------------------------------------------------------- auto()

\* for _ in range(int(duration)): sleep(1); bar.update(1)
Sleep ==
    /\ apc = "wait"
    /\ elapsed < Duration
    /\ elapsed' = elapsed + 1
    /\ UNCHANGED <<apc, aerr, nread, wvars, params, cvars, files, dvars, svars, qvars>>

\* A faulty variant of Interrupt: the except clause sets the event itself,
\* before the finally clause sets it again.
InterruptAndSet ==
    /\ apc = "wait"
    /\ elapsed < Duration
    /\ apc' = "except"
    /\ cancel' = TRUE
    /\ cancelSets' = cancelSets + 1
    /\ cancelBy' = "auto"
    /\ UNCHANGED <<aerr, elapsed, nread, wvars, params, files, dvars, svars, qvars>>

\* except KeyboardInterrupt: "Data acquisition interrupted by user."
Interrupt ==
    /\ apc = "wait"
    /\ elapsed < Duration
    /\ apc' = "except"
    /\ UNCHANGED <<aerr, elapsed, nread, wvars, params, cvars, files, dvars, svars, qvars>>

\* finally: cancel.set(), after the loop has run out or after the except clause.
SetCancel ==
    /\ \/ apc = "wait" /\ elapsed = Duration
       \/ apc = "except"
    /\ cancel' = TRUE
    /\ cancelSets' = cancelSets + 1
    /\ cancelBy' = "auto"
    /\ apc' = "read"
    /\ UNCHANGED <<aerr, elapsed, nread, wvars, params, files, dvars, svars, qvars>>

\* The interfaces auto() decodes, and the two paths (USB, LSB) of each:
\* open_vdifs(vdif_in1, vdif_in2, interface=1), open_vdifs(vdif_in3, vdif_in4,
\* interface=2).
Interfaces == 1..2

VdifsOf(i) == {2 * i - 1, 2 * i}

\* open_vdifs(...) of the next interface: open_vdif -> np.fromfile reads its
\* two files; a path that does not exist yet raises FileNotFoundError. After
\* the second interface the datasets are aligned and stored and the return
\* statement is reached.
OpenVdifs ==
    /\ apc = "read"
    /\ LET i == nread + 1 IN
       IF \A p \in VdifsOf(i) : files[p].exists
       THEN /\ nread' = i
            /\ apc' = IF i = 2 THEN "exit" ELSE "read"
            /\ aerr' = aerr
       ELSE /\ apc' = "exit"
            /\ aerr' = "FileNotFoundError"
            /\ nread' = nread
    /\ UNCHANGED <<elapsed, wvars, params, cvars, files, dvars, svars, qvars>>

\* Leaving the with statement: ProcessPoolExecutor.__exit__ waits until every
\* submitted dump() has ended; the exceptions of the workers stay in their
\* futures, which auto() never reads.
PoolExit ==
    /\ apc = "exit"
    /\ \A w \in Workers : Terminated(w)
    /\ apc' = "finished"
    /\ UNCHANGED <<aerr, elapsed, nread, wvars, params, cvars, files, dvars, svars, qvars>>

Auto == Sleep \/ Interrupt \/ SetCancel \/ OpenVdifs \/ PoolExit

\* The checks at the head of auto(), in the order of the code: the destination
\* ports are read from the environment when not given, and int("") raises
\* ValueError for a port that is not set; then append and overwrite, chassis,
\* the two frequency ranges, integ_time, and the two zarr targets.
ValidateArgs(a, ow) ==
    IF ~a.ports THEN "ValueError"
    ELSE IF a.append /\ ow THEN "ValueError"
    ELSE IF a.chassis \notin {1, 2} THEN "ValueError"
    ELSE IF a.freq_range_if1 \notin {"inner", "outer"} THEN "ValueError"
    ELSE IF a.freq_range_if2 \notin {"inner", "outer"} THEN "ValueError"
    ELSE IF a.integ_time \notin {100, 200, 500, 1000} THEN "ValueError"
    ELSE IF a.zarr_if1 /\ ~a.append /\ ~ow THEN "FileExistsError"
    ELSE IF a.zarr_if2 /\ ~a.append /\ ~ow THEN "FileExistsError"
    ELSE "none"

\* The checks made only after the settings commands have been sent.
ValidateAfterSettings ==
    /\ apc = "called"
    /\ commands' = IF aargs.settings THEN commands + 4 ELSE commands
    /\ LET e == ValidateArgs(aargs, overwrite) IN
       /\ aerr' = e
       /\ apc' = IF e = "none" THEN "submit" ELSE "raised"
    /\ UNCHANGED <<aargs, elapsed, nread, wvars, params, cvars, files, dvars, qvars>>

\* auto() is called: the first failing check raises, otherwise the call goes
\* on to the settings.
Validate ==
    /\ apc = "called"
    /\ LET e == ValidateArgs(aargs, overwrite) IN
       /\ aerr' = e
       /\ apc' = IF e = "none" THEN "settings" ELSE "raised"
    /\ UNCHANGED <<elapsed, nread, wvars, params, cvars, files, dvars, svars, qvars>>

\* if settings: run(<four commands>, chassis=chassis, timeout=timeout) sends
\* the commands to the chassis in one ssh call, which raises TimeoutExpired
\* when a timeout is set and runs out; result.check_returncode() raises
\* CalledProcessError for a nonzero exit status.
RunSettings ==
    /\ apc = "settings"
    /\ IF aargs.settings
       THEN /\ commands' = commands + 4
            /\ \E e \in {"none", "CalledProcessError"} \cup
                         (IF hasTimeout THEN {"TimeoutExpired"} ELSE {}) :
                   /\ aerr' = e
                   /\ apc' = IF e = "none" THEN "submit" ELSE "raised"
       ELSE /\ commands' = commands
            /\ aerr' = aerr
            /\ apc' = "submit"
    /\ UNCHANGED <<aargs, elapsed, nread, wvars, params, cvars, files, dvars, qvars>>

\* The with statement is entered and the four dump() calls are submitted to
\* the pool; auto() goes on to the wait.
Submit ==
    /\ apc = "submit"
    /\ pc' = [w \in Workers |-> "start"]
    /\ apc' = "wait"
    /\ UNCHANGED <<err, fileOpen, sockOpen, rx, aerr, elapsed, nread, params,
                   cvars, files, dvars, svars, qvars>>

Call == Validate \/ RunSettings \/ Submit

\* A KeyboardInterrupt ended the wait: the loop was left before its last sleep.
Interrupted == apc # "wait" /\ elapsed < Duration

\* auto() has returned its two zarr paths to the caller.
Returned == apc = "finished" /\ aerr = "none"

\* -------------------------------------------------------------- open_vdif()

\* IntegTime = L[100, 200, 500, 1000]
IntegTime == {100, 200, 500, 1000}

\* XarrayJoin = L["outer", "inner", "left", "right", "exact", "override"]
XarrayJoin == {"outer", "inner", "left", "right", "exact", "override"}

\* A frame of a capture file as np.fromfile reads it: the header words 0 and
\* 1 (u4; words 2 to 7 are not used) and the 256 samples, which the decoding
\* moves but never looks at: data names the sample vector.
VdifFrame(w0, w1, d) == [word_0 |-> w0, word_1 |-> w1, data |-> d]

\* The fill value of xarray for a missing half: NaN (sample vectors are
\* named by positive numbers).
NaN == 0

\* Word.__getitem__: (self.data >> start) & ((1 << stop - start) - 1)
Word(data, start, stop) == (data \div (2 ^ start)) % (2 ^ (stop - start))

\* seconds = word_0[0:30]
seconds(f) == Word(f.word_0, 0, 30)

\* A faulty variant of frame_num: the field is taken one bit too wide.
frame_num_wide(f) == Word(f.word_1, 0, 25)

\* frame_num = word_1[0:24]
frame_num(f) == Word(f.word_1, 0, 24)

\* ref_epoch = word_1[24:30]
ref_epoch(f) == Word(f.word_1, 24, 30)

\* The fields of all frames of an array, as the code's arrays frame_num etc.
FieldOf(array, Field(_)) == [i \in 1..Len(array) |-> Field(array[i])]

\* max(frame_num)
RECURSIVE MaxOf(_)
MaxOf(ns) ==
    IF Len(ns) = 1 THEN ns[1]
    ELSE LET m == MaxOf(Tail(ns)) IN IF ns[1] > m THEN ns[1] ELSE m

\* sum(frame_num == frame_max)
CountOf(ns, v) == Cardinality({i \in 1..Len(ns) : ns[i] = v})

\* A faulty variant of infer_integ_time: one frame at the maximum is enough.
infer_from_one_frame(ns) ==
    IF ns = <<>> THEN [err |-> "ValueError", value |-> 0]
    ELSE LET frame_max == MaxOf(ns)
             integ_time == 2000 \div (frame_max + 1)
         IN  IF integ_time \notin IntegTime
             THEN [err |-> "ValueError", value |-> 0]
             ELSE [err |-> "none", value |-> integ_time]

\* A faulty variant of infer_integ_time: the quotient is rounded to the
\* nearest of the four integration times.
infer_rounded(ns) ==
    IF ns = <<>> THEN [err |-> "ValueError", value |-> 0]
    ELSE LET frame_max == MaxOf(ns)
             quotient == 2000 \div (frame_max + 1)
             dist(t) == IF t >= quotient THEN t - quotient ELSE quotient - t
         IN  IF CountOf(ns, frame_max) < 2
             THEN [err |-> "RuntimeError", value |-> 0]
             ELSE [err |-> "none",
                   value |-> CHOOSE t \in IntegTime : \A u \in IntegTime : dist(t) <= dist(u)]

\* infer_integ_time(frame_num): max() of an empty array raises ValueError.
infer_integ_time(ns) ==
    IF ns = <<>> THEN [err |-> "ValueError", value |-> 0]
    ELSE LET frame_max == MaxOf(ns)
             integ_time == 2000 \div (frame_max + 1)
         IN  IF CountOf(ns, frame_max) < 2
             THEN [err |-> "RuntimeError", value |-> 0]
             ELSE IF integ_time \notin IntegTime
             THEN [err |-> "ValueError", value |-> 0]
             ELSE [err |-> "none", value |-> integ_time]

\* integ_time=None
None == -1

\* The days of the h-th half-year after REF_EPOCH_ORIGIN (2000-01): numpy
\* adds REF_EPOCH_UNIT * ref_epoch in calendar months.
DaysInHalf(h) ==
    IF h % 2 = 1 THEN 184 ELSE IF (h \div 2) % 4 = 0 THEN 182 ELSE 181

RECURSIVE DaysBefore(_)
DaysBefore(e) == IF e = 0 THEN 0 ELSE DaysBefore(e - 1) + DaysInHalf(e - 1)

\* A faulty variant of Time: integ_time ms * frame_num, the frame number not
\* halved.
TimeOfFrame(f, integ_time) ==
    LET k == frame_num(f)
        per == 1000 \div integ_time
        secs == seconds(f) + (k \div per)
    IN  <<DaysBefore(ref_epoch(f)) + (secs \div 86400), secs % 86400,
          (k % per) * integ_time>>

\* REF_EPOCH_ORIGIN + REF_EPOCH_UNIT * ref_epoch + 1 s * seconds
\* + integ_time ms * (frame_num // 2), as <<days, seconds of the day,
\* milliseconds of the second>> since REF_EPOCH_ORIGIN (numpy keeps one
\* 64-bit count; integ_time divides 1000).
Time(f, integ_time) ==
    LET k == frame_num(f) \div 2
        per == 1000 \div integ_time
        secs == seconds(f) + (k \div per)
    IN  <<DaysBefore(ref_epoch(f)) + (secs \div 86400), secs % 86400,
          (k % per) * integ_time>>

\* Time a is earlier than time b.
Before(a, b) ==
    \/ a[1] < b[1]
    \/ a[1] = b[1] /\ a[2] < b[2]
    \/ a[1] = b[1] /\ a[2] = b[2] /\ a[3] < b[3]

\* A faulty variant of Half: the halves are told apart by the position of
\* the frame in the file.
HalfByPosition(array, integ_time, parity) ==
    LET Pos(i) == (i - 1) % 2 = parity
        sel == {i \in 1..Len(array) : Pos(i)}
        RECURSIVE Take(_)
        Take(i) ==
            IF i > Len(array) THEN <<>>
            ELSE IF i \in sel
                 THEN <<[time |-> Time(array[i], integ_time), data |-> array[i].data]>>
                      \o Take(i + 1)
                 ELSE Take(i + 1)
    IN  Take(1)

\* time[frame_num % 2 == parity], array["data"][frame_num % 2 == parity]:
\* the times and sample vectors of one half, in the order of the file.
Half(array, integ_time, parity) ==
    LET sel == {i \in 1..Len(array) : frame_num(array[i]) % 2 = parity}
        RECURSIVE Take(_)
        Take(i) ==
            IF i > Len(array) THEN <<>>
            ELSE IF i \in sel
                 THEN <<[time |-> Time(array[i], integ_time), data |-> array[i].data]>>
                      \o Take(i + 1)
                 ELSE Take(i + 1)
    IN  Take(1)

\* The time index of a series of rows.
Times(h) == [i \in 1..Len(h) |-> h[i].time]

Range(idx) == {idx[i] : i \in 1..Len(idx)}

\* pandas Index.is_unique
IsUnique(idx) == Cardinality(Range(idx)) = Len(idx)

\* The times of S in ascending order.
RECURSIVE Sorted(_)
Sorted(S) ==
    IF S = {} THEN <<>>
    ELSE LET t == CHOOSE x \in S : \A y \in S \ {x} : Before(x, y)
         IN  <<t>> \o Sorted(S \ {t})

\* pandas Index.intersection (the order of the left index is kept) and
\* Index.union (sorted), as xarray joins two indexes that differ.
JoinIndex(a, b, join) ==
    CASE join = "inner" -> SelectSeq(a, LAMBDA t : t \in Range(b))
      [] join = "outer" -> Sorted(Range(a) \cup Range(b))
      [] join = "left" -> a
      [] join = "right" -> b

\* xarray's alignment of two objects along "time": equal indexes are left
\* alone, duplicates included; "exact" refuses indexes that differ;
\* "override" takes the first index when the sizes agree; every other join
\* reindexes both objects to the joined index, which an index with
\* duplicate values does not allow.
AlignIndex(a, b, join) ==
    IF a = b THEN [err |-> "none", index |-> a, byPos |-> TRUE]
    ELSE IF join = "exact" THEN [err |-> "ValueError", index |-> <<>>, byPos |-> TRUE]
    ELSE IF join = "override"
    THEN IF Len(a) = Len(b)
         THEN [err |-> "none", index |-> a, byPos |-> TRUE]
         ELSE [err |-> "ValueError", index |-> <<>>, byPos |-> TRUE]
    ELSE IF ~IsUnique(a) \/ ~IsUnique(b)
    THEN [err |-> "ValueError", index |-> <<>>, byPos |-> TRUE]
    ELSE [err |-> "none", index |-> JoinIndex(a, b, join), byPos |-> FALSE]

\* The rows of h on the aligned index al; fill is the row of a time that h
\* does not have.
Reindex(h, al, fill) ==
    [i \in 1..Len(al.index) |->
        IF al.byPos THEN [h[i] EXCEPT !.time = al.index[i]]
        ELSE IF \E j \in 1..Len(h) : h[j].time = al.index[i]
             THEN h[CHOOSE j \in 1..Len(h) : h[j].time = al.index[i]]
             ELSE [fill EXCEPT !.time = al.index[i]]]

\* What a call that raised leaves: no array.
Raised(e) == [err |-> e, integ_time |-> 0, rows |-> <<>>]

\* xr.concat((VDIF.new(first half), VDIF.new(second half)), dim="chan",
\* join=join): the two halves are aligned along time and put side by side;
\* a row holds the sample vector on channels 0-255 (first) and the one on
\* channels 256-511 (second).
Concat(first, second, integ_time, join) ==
    LET al == AlignIndex(Times(first), Times(second), join)
        f == Reindex(first, al, [time |-> <<>>, data |-> NaN])
        g == Reindex(second, al, [time |-> <<>>, data |-> NaN])
    IN  IF al.err # "none" THEN Raised(al.err)
        ELSE [err |-> "none", integ_time |-> integ_time,
              rows |-> [i \in 1..Len(al.index) |->
                          [time |-> al.index[i], first |-> f[i].data,
                           second |-> g[i].data]]]

\* integ_time as open_vdif resolves it: the argument, or infer_integ_time.
Resolve(array, integ_time) ==
    IF integ_time = None THEN infer_integ_time(FieldOf(array, frame_num))
    ELSE [err |-> "none", value |-> integ_time]

\* A faulty variant of open_vdif: the integration time is not checked
\* against IntegTime.
open_vdif_unchecked(file, integ_time, join) ==
    IF ~file.exists THEN Raised("FileNotFoundError")
    ELSE LET array == file.data
             resolved == Resolve(array, integ_time)
         IN  IF resolved.err # "none" THEN Raised(resolved.err)
             ELSE Concat(Half(array, resolved.value, 0),
                         Half(array, resolved.value, 1), resolved.value, join)

\* open_vdif(vdif, integ_time=integ_time, join=join) on a file of the file
\* system.
open_vdif(file, integ_time, join) ==
    IF ~file.exists THEN Raised("FileNotFoundError")
    ELSE LET array == file.data
             resolved == Resolve(array, integ_time)
         IN  IF resolved.err # "none" THEN Raised(resolved.err)
             ELSE IF resolved.value \notin IntegTime THEN Raised("ValueError")
             ELSE Concat(Half(array, resolved.value, 0),
                         Half(array, resolved.value, 1), resolved.value, join)

\* A faulty variant of CallOpenVdif: reading consumes the file.
CallOpenVdifConsuming ==
    /\ dpc \in {"first", "second"}
    /\ da' = Append(da, open_vdif(files[1], dargs.integ_time, dargs.join))
    /\ files' = [files EXCEPT ![1] = NoFile]
    /\ dpc' = IF dpc = "first" THEN "second" ELSE "decoded"
    /\ UNCHANGED <<dargs, derr, ds, wvars, params, avars, cvars, svars, qvars>>

\* A call open_vdif(vdif, integ_time=..., join=...) by a user of the package,
\* made twice in a row on the same path; da keeps what each call gave.
CallOpenVdif ==
    /\ dpc \in {"first", "second"}
    /\ da' = Append(da, open_vdif(files[1], dargs.integ_time, dargs.join))
    /\ dpc' = IF dpc = "first" THEN "second" ELSE "decoded"
    /\ UNCHANGED <<dargs, derr, ds, files, wvars, params, avars, cvars, svars, qvars>>

\* ------------------------------------------------------------- open_vdifs()

\* Chassis = L[1, 2], Interface = L[1, 2], FreqRange = L["inner", "outer"]
Chassis == {1, 2}

Interface == {1, 2}

FreqRange == {"inner", "outer"}

SideBand == {<<"U", "S", "B">>, <<"L", "S", "B">>}

\* Optional[...] arguments that may hold any value of their type: None is the
\* empty tuple, a given value v the tuple <<v>>.
Nothing == <<>>

Some(v) == <<v>>

\* v if v is not None else default
OrElse(opt, default) == IF opt # Nothing THEN opt[1] ELSE default

\* The missing indicators of signal_sb and signal_chan.
NA == <<"N", "A">>

NoChan == 0 - 1

\* The number of channels of a spectrum, and the channel spacing in units of
\* 0.01 GHz (FREQ_INTERVAL = 0.02 GHz).
CHAN_TOTAL == 512

FREQ_INTERVAL == 2

\* np.arange(start, stop)
arange(start, stop) == [i \in 1..(stop - start) |-> start + i - 1]

\* The array in its own order.
NotReversed(array) == array

\* array[::-1]
Reversed(array) == [i \in 1..Len(array) |-> array[Len(array) + 1 - i]]

\* FREQ_INTERVAL * array
Scaled(factor, array) == [i \in 1..Len(array) |-> factor * array[i]]

FREQ_INNER == Scaled(FREQ_INTERVAL, arange(CHAN_TOTAL * 0, CHAN_TOTAL * 1))

FREQ_OUTER == Scaled(FREQ_INTERVAL, arange(CHAN_TOTAL * 1, CHAN_TOTAL * 2))

\* The channel numbers of the two halves of a spectrum, and of the spectrum
\* that xr.concat(..., dim="chan") makes of them.
CHAN_FIRST_HALF == arange(0, 256)

CHAN_SECOND_HALF == arange(256, 512)

\* np.full(n, value) with n one short.
FullShort(n, value) == [i \in 1..(n - 1) |-> value]

\* np.full(n, value)
Full(n, value) == [i \in 1..n |-> value]

\* The conversion of a string to the dtype U3 of the signal_sb coordinate: no
\* more than three characters are kept.
U3(str) == SubSeq(str, 1, Min(Len(str), 3))

AsU3(array) == [i \in 1..Len(array) |-> U3(array[i])]

\* The path open_vdifs reads for a sideband: vdif_usb, vdif_lsb.
SidebandPath(sb) == IF sb = "usb" THEN 1 ELSE 2

\* The three selector checks at the start of open_vdifs.
CheckSelectors ==
    /\ dpc = "check"
    /\ IF \/ dargs.chassis \notin Chassis
          \/ dargs.interface \notin Interface
          \/ dargs.freq_range \notin FreqRange
       THEN dpc' = "raised" /\ derr' = "ValueError"
       ELSE dpc' = "usb" /\ derr' = derr
    /\ UNCHANGED <<dargs, da, ds, files, wvars, params, avars, cvars, svars, qvars>>

\* open_vdif(vdif_usb, ...) and then open_vdif(vdif_lsb, ...), the arguments
\* of xr.align; an exception of open_vdif ends open_vdifs.
OpenSideband(sb) ==
    /\ dpc = sb
    /\ LET r == open_vdif(files[SidebandPath(sb)], dargs.integ_time, dargs.join)
       IN  IF r.err # "none"
           THEN dpc' = "raised" /\ derr' = r.err /\ da' = da
           ELSE /\ da' = Append(da, r)
                /\ dpc' = (IF sb = "usb" THEN "lsb" ELSE "align")
                /\ derr' = derr
    /\ UNCHANGED <<dargs, ds, files, wvars, params, avars, cvars, svars, qvars>>

\* FREQ_INNER if freq_range == "inner" else FREQ_OUTER[::-1]: the freq
\* coordinate open_vdifs and open_csvs assign.
FreqOf(freq_range) ==
    IF freq_range = "inner" THEN FREQ_INNER ELSE Reversed(FREQ_OUTER)

\* da_usb, da_lsb = xr.align(..., join=join); the comparison of the two
\* integ_time attributes; Zarr.new(...) of the aligned arrays da_usb, da_lsb.
AlignedSidebands(da_usb, da_lsb, args) ==
    LET al == AlignIndex(Times(da_usb.rows), Times(da_lsb.rows), args.join)
        fill == [time |-> <<>>, first |-> NaN, second |-> NaN]
    IN  IF al.err # "none" THEN [err |-> al.err, ds |-> <<>>]
        ELSE IF da_usb.integ_time # da_lsb.integ_time
        THEN [err |-> "RuntimeError", ds |-> <<>>]
        ELSE [err |-> "none",
              ds |-> <<[time |-> al.index,
                        chan |-> CHAN_FIRST_HALF \o CHAN_SECOND_HALF,
                        freq |-> FreqOf(args.freq_range),
                        signal_sb |->
                            AsU3(Full(Len(al.index), OrElse(args.signal_sb, NA))),
                        signal_chan |->
                            Full(Len(al.index), OrElse(args.signal_chan, NoChan)),
                        auto_usb |-> Reindex(da_usb.rows, al, fill),
                        auto_lsb |-> Reindex(da_lsb.rows, al, fill),
                        cross_2sb |-> Full(Len(al.index), NaN),
                        chassis |-> args.chassis,
                        interface |-> args.interface,
                        integ_time |-> da_usb.integ_time]>>]

\* The last step of open_vdifs: the alignment, the comparison and the return.
AlignSidebands ==
    /\ dpc = "align"
    /\ LET r == AlignedSidebands(da[1], da[2], dargs)
       IN  IF r.err # "none"
           THEN dpc' = "raised" /\ derr' = r.err /\ ds' = ds
           ELSE /\ ds' = r.ds
                /\ dpc' = "returned"
                /\ derr' = derr
    /\ UNCHANGED <<dargs, da, files, wvars, params, avars, cvars, svars, qvars>>

OpenVdifsCall ==
    \/ CheckSelectors
    \/ OpenSideband("usb")
    \/ OpenSideband("lsb")
    \/ AlignSidebands

\* open_vdifs(vdif_usb, vdif_lsb, ...) as a whole, on the two files and the
\* arguments args: the selector checks, the two open_vdif calls, the
\* alignment and the dataset.
open_vdifs(vdif_usb, vdif_lsb, args) ==
    IF \/ args.chassis \notin Chassis
       \/ args.interface \notin Interface
       \/ args.freq_range \notin FreqRange
    THEN [err |-> "ValueError", ds |-> <<>>]
    ELSE LET da_usb == open_vdif(vdif_usb, args.integ_time, args.join)
             da_lsb == open_vdif(vdif_lsb, args.integ_time, args.join)
         IN  IF da_usb.err # "none" THEN [err |-> da_usb.err, ds |-> <<>>]
             ELSE IF da_lsb.err # "none" THEN [err |-> da_lsb.err, ds |-> <<>>]
             ELSE AlignedSidebands(da_usb, da_lsb, args)

\* ------------------------------------------------- open_csv_autos (csv.py)
\* A CSV file is whether it has a time column and its rows; a row gives a
\* number under each column name; dargs.csv is the file of the call.

COL_TIME == "time"
COL_FREQ == "freq"
COL_USB == "out0"
COL_LSB == "out1"

\* pd.to_datetime("2000"), in seconds since 2000-01-01.
TIME_DEFAULT == 0

\* The numbers of S in ascending order.
RECURSIVE Ascending(_)
Ascending(S) ==
    IF S = {} THEN <<>>
    ELSE LET t == CHOOSE x \in S : \A y \in S : x <= y
         IN  <<t>> \o Ascending(S \ {t})

\* pd.read_csv(csv, parse_dates=[COL_TIME]), which raises ValueError when the
\* time column is missing, and then pd.read_csv(csv).assign(time=TIME_DEFAULT).
ReadCsv(csv) ==
    IF csv.has_time THEN csv.rows
    ELSE [i \in DOMAIN csv.rows |-> [csv.rows[i] EXCEPT ![COL_TIME] = TIME_DEFAULT]]

\* df.set_index([COL_TIME, COL_FREQ]).to_xarray(): the levels of the index
\* become sorted coordinates and every column a time x freq array, NaN where
\* no row has the pair; two rows of one pair raise ValueError.
ToXarray(df) ==
    LET times == Ascending({df[i][COL_TIME] : i \in DOMAIN df})
        freqs == Ascending({df[i][COL_FREQ] : i \in DOMAIN df})
        Rows(t, f) == {i \in DOMAIN df : /\ df[i][COL_TIME] = times[t]
                                         /\ df[i][COL_FREQ] = freqs[f]}
        Column(col) ==
            [t \in 1..Len(times) |->
                [f \in 1..Len(freqs) |->
                    IF Rows(t, f) = {} THEN NaN
                    ELSE df[CHOOSE i \in Rows(t, f) : TRUE][col]]]
    IN  IF \E i, j \in DOMAIN df : /\ i # j
                                    /\ df[i][COL_TIME] = df[j][COL_TIME]
                                    /\ df[i][COL_FREQ] = df[j][COL_FREQ]
        THEN [err |-> "ValueError", ds |-> <<>>]
        ELSE [err |-> "none",
              ds |-> [time |-> times, freq |-> freqs,
                      out0 |-> Column(COL_USB), out1 |-> Column(COL_LSB)]]

\* open_csv_autos(csv): auto_lsb is given ds[COL_USB].data as auto_usb is.
open_csv_autos(csv) ==
    LET r == ToXarray(ReadCsv(csv))
    IN  IF r.err # "none" THEN r
        ELSE [err |-> "none",
              ds |-> [time |-> r.ds[COL_TIME],
                      chan |-> arange(0, Len(r.ds[COL_FREQ])),
                      auto_usb |-> r.ds[COL_USB],
                      auto_lsb |-> r.ds[COL_USB]]]

\* The call open_csv_autos(csv).
OpenCsvAutos ==
    /\ dpc = "csv"
    /\ LET r == open_csv_autos(dargs.csv)
       IN  IF r.err # "none"
           THEN dpc' = "raised" /\ derr' = r.err /\ ds' = ds
           ELSE dpc' = "returned" /\ derr' = derr /\ ds' = r.ds
    /\ UNCHANGED <<dargs, da, files, wvars, params, avars, cvars, svars, qvars>>

\* ------------------------------------------- the decoding at the end of auto()
\* (udp.py 202-250); dargs holds the arguments of auto() that the decoding
\* uses, ds the records ds_if1 and ds_if2.

\* The missing value xarray fills in when it reindexes a coordinate: NaN in
\* signal_sb, which becomes an array of objects, and in signal_chan, which
\* becomes an array of floats; neither is a sideband or a channel number.
NaNSB == <<"n", "a", "n">>

NaNChan == 0 - 2

\* The arguments auto() passes to open_vdifs for interface i.
ArgsOf(i) ==
    [chassis |-> dargs.chassis,
     interface |-> i,
     freq_range |-> IF i = 1 THEN dargs.freq_range_if1 ELSE dargs.freq_range_if2,
     integ_time |-> dargs.integ_time,
     signal_sb |-> IF dargs.signal_if = Some(i) THEN dargs.signal_sb ELSE Nothing,
     signal_chan |-> IF dargs.signal_if = Some(i) THEN dargs.signal_chan ELSE Nothing,
     join |-> dargs.join]

\* A dataset on the aligned time index al: a sample the dataset has is kept,
\* any other is filled with the missing value, in the variables and in the
\* coordinates along time alike.
ReindexDataset(d, al) ==
    LET n == Len(al.index)
        Pos(i) == IF al.byPos THEN i
                  ELSE IF \E j \in 1..Len(d.time) : d.time[j] = al.index[i]
                       THEN CHOOSE j \in 1..Len(d.time) : d.time[j] = al.index[i]
                       ELSE 0
        Of(array, fill) == [i \in 1..n |-> IF Pos(i) = 0 THEN fill ELSE array[Pos(i)]]
        row(i) == [time |-> al.index[i], first |-> NaN, second |-> NaN]
    IN  [d EXCEPT !.time = al.index,
                  !.signal_sb = Of(d.signal_sb, NaNSB),
                  !.signal_chan = Of(d.signal_chan, NaNChan),
                  !.auto_usb = [i \in 1..n |-> IF Pos(i) = 0 THEN row(i)
                                               ELSE [d.auto_usb[Pos(i)] EXCEPT !.time = al.index[i]]],
                  !.auto_lsb = [i \in 1..n |-> IF Pos(i) = 0 THEN row(i)
                                               ELSE [d.auto_lsb[Pos(i)] EXCEPT !.time = al.index[i]]],
                  !.cross_2sb = Full(n, NaN)]

\* open_vdifs(vdif_in1, vdif_in2, interface=1, ...), then
\* open_vdifs(vdif_in3, vdif_in4, interface=2, ...): the arguments of xr.align.
DecodeInterface ==
    /\ dpc \in {"if1", "if2"}
    /\ LET i == IF dpc = "if1" THEN 1 ELSE 2
           r == open_vdifs(files[2 * i - 1], files[2 * i], ArgsOf(i))
       IN  IF r.err # "none"
           THEN dpc' = "raised" /\ derr' = r.err /\ ds' = ds
           ELSE /\ ds' = ds \o r.ds
                /\ dpc' = (IF i = 1 THEN "if2" ELSE "align")
                /\ derr' = derr
    /\ UNCHANGED <<dargs, da, files, wvars, params, avars, cvars, svars, qvars>>

\* ds_if1, ds_if2 = xr.align(..., join=join)
AlignInterfaces ==
    /\ dpc = "align"
    /\ LET al == AlignIndex(ds[1].time, ds[2].time, dargs.join)
       IN  IF al.err # "none"
           THEN dpc' = "raised" /\ derr' = al.err /\ ds' = ds
           ELSE /\ ds' = <<ReindexDataset(ds[1], al), ReindexDataset(ds[2], al)>>
                /\ dpc' = "integrate"
                /\ derr' = derr
    /\ UNCHANGED <<dargs, da, files, wvars, params, avars, cvars, svars, qvars>>

\* All entries of a coordinate are one value.
Uniform(array) == \A i, j \in 1..Len(array) : array[i] = array[j]

\* ds.coarsen({"time": size}, coord_func=unique).mean(): one time sample, the
\* mean of the variables and the one value of each signal coordinate.
Coarsen(d) ==
    [d EXCEPT !.time = <<[mean |-> d.time]>>,
              !.signal_sb = <<d.signal_sb[1]>>,
              !.signal_chan = <<d.signal_chan[1]>>,
              !.auto_usb = <<[mean |-> d.auto_usb]>>,
              !.auto_lsb = <<[mean |-> d.auto_lsb]>>,
              !.cross_2sb = <<NaN>>]

\* if integrate: both records are reduced to one time sample. A window of
\* zero samples cannot be coarsened, and unique() raises ValueError for a
\* coordinate with more than one value; whether the missing values of a
\* coordinate that holds nothing else count as one value depends on numpy.
IntegrateRecords ==
    /\ dpc = "integrate"
    /\ IF ~dargs.integrate
       THEN dpc' = "store" /\ ds' = ds /\ derr' = derr
       ELSE IF ds[1].time = <<>>
       THEN /\ dpc' = "raised" /\ ds' = ds
            /\ derr' \in {"ZeroDivisionError", "ValueError"}
       ELSE IF \E i \in 1..2 : ~Uniform(ds[i].signal_sb) \/ ~Uniform(ds[i].signal_chan)
       THEN dpc' = "raised" /\ ds' = ds /\ derr' = "ValueError"
       ELSE \/ dpc' = "store" /\ ds' = <<Coarsen(ds[1]), Coarsen(ds[2])>> /\ derr' = derr
            \/ /\ \E i \in 1..2 : ds[i].signal_chan[1] = NaNChan
               /\ dpc' = "raised" /\ ds' = ds /\ derr' = "ValueError"
    /\ UNCHANGED <<dargs, da, files, wvars, params, avars, cvars, svars, qvars>>

\* ds_if1.to_zarr(...), ds_if2.to_zarr(...) and the return of the two paths:
\* ds holds the two records as they were stored.
StoreRecords ==
    /\ dpc = "store"
    /\ dpc' = "returned"
    /\ UNCHANGED <<dargs, da, derr, ds, files, wvars, params, avars, cvars, svars, qvars>>

DecodeRecords == DecodeInterface \/ AlignInterfaces \/ IntegrateRecords \/ StoreRecords

\* ----------------------------------------------------------- specifications

\* Paths at which an earlier capture may have left a file when a run starts.
PreExisting == {{}, {1}}

\* The file system in which the paths of pre hold a file of an earlier capture.
FilesWith(pre) == [p \in Paths |-> IF p \in pre THEN OldFile ELSE NoFile]

\* ---------------------------------------------------------------------------
\* SCPI commands (ctrl/scpi.py). A string is the tuple of its characters; the
\* newline is the character "\n".
\* ---------------------------------------------------------------------------

Whitespace == {" ", "\n"}

\* str.lstrip() and str.strip()
RECURSIVE lstrip(_)
lstrip(str) ==
    IF str # <<>> /\ Head(str) \in Whitespace THEN lstrip(Tail(str)) ELSE str

RECURSIVE rstrip(_)
rstrip(str) ==
    IF str # <<>> /\ str[Len(str)] \in Whitespace
    THEN rstrip(SubSeq(str, 1, Len(str) - 1))
    ELSE str

strip(str) == lstrip(rstrip(str))

startswith(str, c) == str # <<>> /\ Head(str) = c

endswith(str, c) == str # <<>> /\ str[Len(str)] = c

\* The lines a text file yields when iterated: each with its newline, the last
\* one without when the text does not end in a newline.
RECURSIVE FileLines(_, _)
FileLines(chars, line) ==
    IF chars = <<>> THEN (IF line = <<>> THEN <<>> ELSE <<line>>)
    ELSE IF Head(chars) = "\n"
    THEN <<Append(line, "\n")>> \o FileLines(Tail(chars), <<>>)
    ELSE FileLines(Tail(chars), Append(line, Head(chars)))

\* The command lines of a text: its lines without their newlines.
CommandLines(chars) ==
    [i \in 1..Len(FileLines(chars, <<>>)) |->
        LET line == FileLines(chars, <<>>)[i]
        IN  IF endswith(line, "\n") THEN SubSeq(line, 1, Len(line) - 1) ELSE line]

\* The signal channel as cw.on counts it from the LO: for the outer range
\* signal_chan = CHAN_TOTAL * 2 - signal_chan.
OnChan(freq_range, signal_chan) ==
    IF freq_range = "outer" THEN CHAN_TOTAL * 2 - signal_chan ELSE signal_chan

\* sg_freq = (lo_freq +- FREQ_INTERVAL * signal_chan) / lo_mult, kept as the
\* fraction of its numerator, in units of 0.01 GHz, and lo_mult.
SgFreq(args) ==
    LET offset == FREQ_INTERVAL * OnChan(args.freq_range, args.signal_chan)
    IN  [num |-> IF args.signal_sb = <<"U", "S", "B">>
                 THEN args.lo_freq + offset ELSE args.lo_freq - offset,
         den |-> args.lo_mult]

\* The commands cw.on sends; a command with a number in it is the tuple of
\* its parts.
OnCommands(args) ==
    <<(<<"OUTP OFF">>), <<"FREQ:MODE CW">>, <<"FREQ:CW ", SgFreq(args), "GHz">>,
      <<"AMPL ", args.sg_ampl, "dBm">>, <<"OUTP ON">>>>

\* What the call under way iterates over: send_commands_in passes the open
\* file itself to send_commands; cw.on passes its five commands.
CommandsOf(c) ==
    IF c = "lines" THEN CommandLines(text)
    ELSE IF c = "file" THEN FileLines(text, <<>>)
    ELSE OnCommands(dargs)

\* cw.on up to its call of send_commands: a sideband other than USB|LSB
\* raises ValueError, the division by an LO multiplication factor of 0 (the
\* value taken when DRS4_LO_MULT is not set) ZeroDivisionError.
On ==
    /\ call = "on"
    /\ dpc = "called"
    /\ IF dargs.signal_sb \notin SideBand
       THEN dpc' = "raised" /\ derr' = "ValueError"
       ELSE IF dargs.lo_mult = 0
       THEN dpc' = "raised" /\ derr' = "ZeroDivisionError"
       ELSE dpc' = "sending" /\ derr' = derr
    /\ UNCHANGED <<dargs, da, ds, files, wvars, params, avars, cvars, svars, qvars>>

\* with connect(host, port, timeout) as sock: the loop is entered.
Connect ==
    /\ call \in {"lines", "file"} \/ (call = "on" /\ dpc = "sending")
    /\ ~connected
    /\ wire[call] = <<>>
    /\ connected' = TRUE
    /\ pending' = CommandsOf(call)
    /\ UNCHANGED <<text, autorecv, call, wire, wvars, params, avars, cvars, files,
                   dvars, svars>>

\* One turn of the loop: an empty command and a command that starts with "#"
\* are passed over; any other is sent without its surrounding whitespace and
\* with the end "\n", and a message is received when autorecv is set and the
\* command ends with "?".
SendCommand ==
    /\ connected
    /\ pending # <<>>
    /\ LET command == Head(pending)
           sent == <<"send", Append(strip(command), "\n")>>
       IN  wire' = [wire EXCEPT ![call] =
                IF command = <<>> \/ startswith(command, "#") THEN @
                ELSE IF autorecv /\ endswith(command, "?")
                THEN @ \o <<sent, <<"recv", <<>>>>>>
                ELSE Append(@, sent)]
    /\ pending' = Tail(pending)
    /\ UNCHANGED <<text, autorecv, call, connected, wvars, params, avars, cvars,
                   files, dvars, svars>>

\* The loop has run out: the socket is closed and the call returns; the
\* call with the file follows the call with the lines.
Return ==
    /\ connected
    /\ pending = <<>>
    /\ connected' = FALSE
    /\ call' = IF call = "lines" THEN "file" ELSE "done"
    /\ UNCHANGED <<text, autorecv, pending, wire, wvars, params, avars, cvars,
                   files, dvars, svars>>

SendCommands == Connect \/ SendCommand \/ Return

\* No SCPI call is under way.
NoSession ==
    /\ text = <<>>
    /\ autorecv = TRUE
    /\ call = "none"
    /\ pending = <<>>
    /\ connected = FALSE
    /\ wire = [c \in {"lines", "file"} |-> <<>>]

\* The arguments of a decoding call at their defaults.
DefaultArgs ==
    [integ_time |-> None, join |-> "inner", chassis |-> 1, interface |-> 1,
     freq_range |-> "inner", signal_sb |-> Nothing, signal_chan |-> Nothing]

\* The arguments of auto() at their defaults, for chassis 1, with the
\* destination ports known and no zarr file at the two targets.
DefaultCall ==
    [chassis |-> 1, freq_range_if1 |-> "inner", freq_range_if2 |-> "outer",
     integ_time |-> 100, append |-> FALSE, settings |-> TRUE, ports |-> TRUE,
     zarr_if1 |-> FALSE, zarr_if2 |-> FALSE]

\* The steps of auto() before the submission of its workers are not followed.
NoCall ==
    /\ aargs = DefaultCall
    /\ commands = 0

\* No decoding call by a user of the package is under way.
NoDecode ==
    /\ dargs = DefaultArgs
    /\ dpc = "none"
    /\ da = <<>>
    /\ derr = "none"
    /\ ds = <<>>

\* The state at the start of a run: nothing opened, received, set or decoded;
\* the receive timeout is a number or None.
InitCommon ==
    /\ err = [w \in Workers |-> "none"]
    /\ hasTimeout \in BOOLEAN
    /\ \E pre \in PreExisting : files = FilesWith(pre)
    /\ fileOpen = [w \in Workers |-> FALSE]
    /\ sockOpen = [w \in Workers |-> FALSE]
    /\ rx = [w \in Workers |-> <<>>]
    /\ cancel = FALSE
    /\ cancelSets = 0
    /\ cancelBy = "none"
    /\ aerr = "none"
    /\ elapsed = 0
    /\ nread = 0
    /\ NoDecode
    /\ NoCall
    /\ NoSession

\* auto() with the default overwrite=False has submitted its four workers and
\* enters the wait; the network delivers datagrams of the lengths ls.
InitAuto(ls) ==
    /\ InitCommon
    /\ overwrite = FALSE
    /\ pc = [w \in Workers |-> "start"]
    /\ vdif = [w \in Workers |-> w]
    /\ useCancel = TRUE
    /\ quota = MaxDatagrams
    /\ lengths = ls
    /\ apc = "wait"

Init == InitAuto(DatagramLengths)

Next == Auto \/ \E w \in Workers : Dump(w)

Spec == Init /\ [][Next]_vars

\* The values a caller passes to auto(): the valid ones and one invalid value
\* of each checked argument; every combination of the flags, of the two zarr
\* targets existing or not, and of the ports being known or not.
CallArgs ==
    [chassis : {1, 3}, freq_range_if1 : {"inner", "upper"},
     freq_range_if2 : {"outer", "upper"}, integ_time : {100, 300},
     append : BOOLEAN, settings : BOOLEAN, ports : BOOLEAN,
     zarr_if1 : BOOLEAN, zarr_if2 : BOOLEAN]

\* auto() has just been called: no worker exists, no command has been sent.
InitCall ==
    /\ err = [w \in Workers |-> "none"]
    /\ hasTimeout \in BOOLEAN
    /\ \E pre \in PreExisting : files = FilesWith(pre)
    /\ fileOpen = [w \in Workers |-> FALSE]
    /\ sockOpen = [w \in Workers |-> FALSE]
    /\ rx = [w \in Workers |-> <<>>]
    /\ cancel = FALSE
    /\ cancelSets = 0
    /\ cancelBy = "none"
    /\ aerr = "none"
    /\ elapsed = 0
    /\ nread = 0
    /\ NoDecode
    /\ NoSession
    /\ aargs \in CallArgs
    /\ commands = 0
    /\ overwrite \in BOOLEAN
    /\ pc = [w \in Workers |-> "idle"]
    /\ vdif = [w \in Workers |-> w]
    /\ useCancel = TRUE
    /\ quota = MaxDatagrams
    /\ lengths = DatagramLengths
    /\ apc = "called"

\* auto() from its call to the first steps of its workers, those that look at
\* and create the output files.
NextCall == Call \/ \E w \in Workers : ExistsCheck(w) \/ OpenFile(w)

SpecCall == InitCall /\ [][NextCall]_vars

\* Two capture sessions: two concurrent dump() calls outside auto(), on the
\* same output path, each with the default cancel=None, with and without
\* overwrite.
Sessions == {1, 2}

InitDump ==
    /\ InitCommon
    /\ overwrite \in BOOLEAN
    /\ pc = [w \in Workers |-> IF w \in Sessions THEN "start" ELSE "idle"]
    /\ vdif = [w \in Workers |-> 1]
    /\ useCancel = FALSE
    /\ quota = MaxDatagramsDump
    /\ lengths = DatagramLengths
    /\ apc = "none"

\* With cancel=None the loop condition is always true: dump() never leaves
\* the loop by LoopExit.
NextDump ==
    \E w \in Sessions :
        \/ ExistsCheck(w)
        \/ OpenFile(w)
        \/ BindOk(w)
        \/ BindError(w)
        \/ LoopEnter(w)
        \/ \E len \in lengths : Recv(w, len)
        \/ RecvTimeout(w)

SpecDump == InitDump /\ [][NextDump]_vars

\* auto() during its wait, at the moment when each of its four workers has
\* created its file, bound its socket and reached the test of its loop; a
\* receive timeout is set, so a receive ends with a datagram or with
\* TimeoutError; the network delivers whole frames.
InitLoop ==
    /\ err = [w \in Workers |-> "none"]
    /\ hasTimeout = TRUE
    /\ files = [p \in Paths |-> [exists |-> TRUE, data |-> <<>>]]
    /\ fileOpen = [w \in Workers |-> TRUE]
    /\ sockOpen = [w \in Workers |-> TRUE]
    /\ rx = [w \in Workers |-> <<>>]
    /\ cancel = FALSE
    /\ cancelSets = 0
    /\ cancelBy = "none"
    /\ aerr = "none"
    /\ elapsed = 0
    /\ nread = 0
    /\ NoDecode
    /\ NoCall
    /\ NoSession
    /\ overwrite = FALSE
    /\ pc = [w \in Workers |-> "loop"]
    /\ vdif = [w \in Workers |-> w]
    /\ useCancel = TRUE
    /\ quota = MaxDatagramsLoop
    /\ lengths = {VDIF_FRAME_BYTES}
    /\ apc = "wait"

NextLoop ==
    \/ Auto
    \/ \E w \in Workers :
        \/ LoopEnter(w)
        \/ LoopExit(w)
        \/ \E len \in lengths : Recv(w, len)
        \/ RecvTimeout(w)

SpecLoop == InitLoop /\ [][NextLoop]_vars

\* Two of the dump() calls of a capture, each on its own output path as in
\* auto() (vdif_in1, vdif_in2), followed for several datagrams; the event is
\* left out (cancel=None), so the calls stay in their loops.
InitCapture ==
    /\ InitCommon
    /\ overwrite \in BOOLEAN
    /\ pc = [w \in Workers |-> IF w \in Sessions THEN "start" ELSE "idle"]
    /\ vdif = [w \in Workers |-> w]
    /\ useCancel = FALSE
    /\ quota = MaxDatagramsCapture
    /\ lengths = DatagramLengths
    /\ apc = "none"

SpecCapture == InitCapture /\ [][NextDump]_vars

\* The steps the processes take by themselves: every step but the arrival of
\* a datagram, which nothing obliges the network to deliver. sleep(1) returns
\* and a receive with a timeout raises when no datagram arrives.
DumpStep(w) ==
    \/ ExistsCheck(w)
    \/ OpenFile(w)
    \/ BindOk(w)
    \/ BindError(w)
    \/ LoopEnter(w)
    \/ LoopExit(w)
    \/ RecvTimeout(w)

\* The scheduling of the processes: as long as some process can take a step
\* by itself, some process does.
Fairness == WF_vars(Auto \/ \E w \in Workers : DumpStep(w))

\* auto() called with a receive timeout; the network delivers whole frames
\* (for the end of a worker a datagram counts, whatever its length).
InitTimeout == InitAuto({VDIF_FRAME_BYTES}) /\ hasTimeout

FairSpec == InitTimeout /\ [][Next]_vars /\ Fairness

\* No capture is under way: no dump() and no auto() call.
NoCapture ==
    /\ pc = [w \in Workers |-> "idle"]
    /\ err = [w \in Workers |-> "none"]
    /\ vdif = [w \in Workers |-> w]
    /\ overwrite = FALSE
    /\ hasTimeout = FALSE
    /\ useCancel = FALSE
    /\ quota = 0
    /\ lengths = {}
    /\ fileOpen = [w \in Workers |-> FALSE]
    /\ sockOpen = [w \in Workers |-> FALSE]
    /\ rx = [w \in Workers |-> <<>>]
    /\ cancel = FALSE
    /\ cancelSets = 0
    /\ cancelBy = "none"
    /\ apc = "none"
    /\ aerr = "none"
    /\ elapsed = 0
    /\ nread = 0
    /\ NoCall

\* The header words 0 and 1 of a frame with the given seconds, frame number
\* and reference epoch; flag is bit 30 of either word, which is part of none
\* of the three fields.
Header(sec, n, epoch, flag) ==
    <<sec + flag * (2 ^ 30), n + epoch * (2 ^ 24) + flag * (2 ^ 30)>>

\* The file whose frames have the headers hs; the sample vector of the i-th
\* frame is named i.
FileOf(hs) ==
    [exists |-> TRUE,
     data |-> [i \in 1..Len(hs) |-> VdifFrame(hs[i][1], hs[i][2], i)]]

\* The files of up to maxlen frames with headers of H, in any order.
FilesOf(H, maxlen) ==
    UNION {{FileOf(hs) : hs \in [1..n -> H]} : n \in 0..maxlen}

\* Header fields at both ends of their ranges.
SecondsSet == {1, 2 ^ 30 - 1}

FrameNumSet == {0, 1, 2, 2 ^ 24 - 1}

RefEpochSet == {0, 63}

FlagSet == {0, 1}

HeadersAll ==
    {Header(sec, n, e, fl) :
        sec \in SecondsSet, n \in FrameNumSet, e \in RefEpochSet, fl \in FlagSet}

\* Frames of two seconds whose frame numbers reach the maxima 1, 3, 9 and 19
\* of the four integration times, and others.
HeadersInfer == {Header(sec, n, 0, 0) : sec \in {0, 1}, n \in {0, 1, 2, 3, 9, 19}}

\* Frames of one second whose frame numbers are the four maxima, their
\* neighbours, and the largest number the header field can hold.
HeadersMaxima ==
    {Header(0, n, 0, 0) : n \in {0, 1, 2, 3, 4, 9, 10, 18, 19, 20, 2 ^ 24 - 1}}

\* Frames of two consecutive seconds of one reference epoch, with the first
\* and the last pair of frame numbers of each integration time.
HeadersPair ==
    {Header(sec, n, 0, 0) : sec \in {0, 1}, n \in {0, 1, 2, 3, 8, 9, 18, 19}}

\* The frames 0 to 3 of one second.
HeadersJoin == {Header(0, n, 0, 0) : n \in 0..3}

\* open_vdif is called on path 1, which holds file, with the arguments
\* integ_time and join.
InitVdif(Fs, integs, joins) ==
    /\ NoCapture
    /\ NoSession
    /\ \E file \in Fs : files = [p \in Paths |-> IF p = 1 THEN file ELSE NoFile]
    /\ \E it \in integs, j \in joins :
           dargs = [DefaultArgs EXCEPT !.integ_time = it, !.join = j]
    /\ dpc = "first"
    /\ da = <<>>
    /\ derr = "none"
    /\ ds = <<>>

InitHeader == InitVdif(FilesOf(HeadersAll, MaxFramesHeader), IntegTime, {"inner", "outer"})

SpecHeader == InitHeader /\ [][CallOpenVdif]_vars

InitInfer == InitVdif(FilesOf(HeadersInfer, MaxFramesInfer), {None, 100, 300}, {"inner"})

SpecInfer == InitInfer /\ [][CallOpenVdif]_vars

InitMaxima == InitVdif(FilesOf(HeadersMaxima, MaxFramesInfer), {None}, {"inner"})

SpecMaxima == InitMaxima /\ [][CallOpenVdif]_vars

InitPair == InitVdif(FilesOf(HeadersPair, MaxFramesPair), IntegTime, {"inner", "outer"})

SpecPair == InitPair /\ [][CallOpenVdif]_vars

InitJoin == InitVdif(FilesOf(HeadersJoin, MaxFramesJoin), {None, 100}, XarrayJoin)

SpecJoin == InitJoin /\ [][CallOpenVdif]_vars

\* The headers a device with integration time p sends in nsec seconds:
\* the frame numbers 0 .. 2000/p - 1 in every second.
StreamOf(p, nsec) ==
    [i \in 1..(nsec * (2000 \div p)) |->
        Header((i - 1) \div (2000 \div p), (i - 1) % (2000 \div p), 0, 0)]

\* The sequence hs without its j-th element: a datagram that was lost.
Drop(hs, j) == SubSeq(hs, 1, j - 1) \o SubSeq(hs, j + 1, Len(hs))

\* The capture files of a sideband: a stream of up to MaxSeconds seconds, whole
\* or with one frame lost.
FilesOfStreams ==
    UNION {{FileOf(StreamOf(p, nsec))}
           \cup {FileOf(Drop(StreamOf(p, nsec), j)) : j \in 1..Len(StreamOf(p, nsec))} :
              p \in {500, 1000}, nsec \in 1..MaxSeconds}

\* The selector arguments of open_vdifs: valid, and each one invalid in turn.
SelectorCases ==
    {[chassis |-> 1, interface |-> 2, freq_range |-> "outer"],
     [chassis |-> 3, interface |-> 1, freq_range |-> "inner"],
     [chassis |-> 2, interface |-> 0, freq_range |-> "inner"],
     [chassis |-> 1, interface |-> 1, freq_range |-> "upper"]}

\* open_vdifs is called on the paths 1 (USB) and 2 (LSB).
InitVdifs ==
    /\ NoCapture
    /\ NoSession
    /\ \E usb \in FilesOfStreams, lsb \in FilesOfStreams :
           files = [p \in Paths |-> IF p = 1 THEN usb ELSE IF p = 2 THEN lsb ELSE NoFile]
    /\ \E it \in {None, 1000}, j \in {"inner", "outer", "exact"}, sel \in SelectorCases :
           dargs = [integ_time |-> it, join |-> j, chassis |-> sel.chassis,
                    interface |-> sel.interface, freq_range |-> sel.freq_range,
                    signal_sb |-> Nothing, signal_chan |-> Nothing]
    /\ dpc = "check"
    /\ da = <<>>
    /\ derr = "none"
    /\ ds = <<>>

SpecVdifs == InitVdifs /\ [][OpenVdifsCall]_vars

\* The characters of a command file: a letter, the query mark, the comment
\* mark, the blank and the newline.
Chars == {"O", "?", "#", " ", "\n"}

RECURSIVE Texts(_)
Texts(n) ==
    IF n = 0 THEN {<<>>}
    ELSE Texts(n - 1) \cup {Append(t, c) : t \in {u \in Texts(n - 1) : Len(u) = n - 1}, c \in Chars}

\* send_commands(lines, ...) is called with the command lines of a file, then
\* send_commands_in(path, ...) with the file, both with the same autorecv.
InitScpi ==
    /\ NoCapture
    /\ NoDecode
    /\ files = FilesWith({})
    /\ text \in Texts(MaxChars)
    /\ autorecv \in BOOLEAN
    /\ call = "lines"
    /\ pending = <<>>
    /\ connected = FALSE
    /\ wire = [c \in {"lines", "file"} |-> <<>>]

SpecScpi == InitScpi /\ [][SendCommands]_vars

\* cw.on is called for every signal channel, with each frequency range and
\* sideband, an LO of 90 GHz and a multiplication factor of 6, or of 0.
InitCw ==
    /\ NoCapture
    /\ files = FilesWith({})
    /\ \E fr \in FreqRange, sb \in SideBand \cup {<<"D", "S", "B">>},
          c \in 0..(CHAN_TOTAL - 1), m \in {0, 6} :
           dargs = [freq_range |-> fr, signal_sb |-> sb, signal_chan |-> c,
                    lo_freq |-> 9000, lo_mult |-> m, sg_ampl |-> 0]
    /\ dpc = "called"
    /\ da = <<>>
    /\ derr = "none"
    /\ ds = <<>>
    /\ text = <<>>
    /\ autorecv = TRUE
    /\ call = "on"
    /\ pending = <<>>
    /\ connected = FALSE
    /\ wire = [c \in {"on"} |-> <<>>]

SpecCw == InitCw /\ [][On \/ SendCommands]_vars

\* The rows a CSV file can hold, and the files of up to n rows.
CsvRows == [time : {1, 2}, freq : {0, 2}, out0 : {1, 2}, out1 : {1, 2}]

CsvFiles ==
    [has_time : BOOLEAN,
     rows : UNION {[1..n -> CsvRows] : n \in 0..MaxRows}]

\* open_csv_autos is called on a CSV file of up to MaxRows rows, with or
\* without a time column.
InitCsv ==
    /\ NoCapture
    /\ NoSession
    /\ files = FilesWith({})
    /\ \E csv \in CsvFiles : dargs = [csv |-> csv]
    /\ dpc = "csv"
    /\ da = <<>>
    /\ derr = "none"
    /\ ds = <<>>

SpecCsv == InitCsv /\ [][OpenCsvAutos]_vars

\* The capture files of a sideband recorded at 1000 ms for 0 to MaxSeconds
\* whole seconds.
FilesOfSeconds == {FileOf(StreamOf(1000, nsec)) : nsec \in 0..MaxSeconds}

\* The values a caller passes for signal_sb and signal_chan: nothing, or a
\* sideband and a channel of the documented ranges, the first and the last
\* channel among them.
SignalSBArgs == {Nothing} \cup {Some(sb) : sb \in SideBand}

SignalChanArgs == {Nothing, Some(0), Some(1), Some(CHAN_TOTAL - 1)}

\* open_vdifs is called on the paths 1 (USB) and 2 (LSB) with every
\* combination of the signal arguments and of the frequency range.
InitCoords ==
    /\ NoCapture
    /\ NoSession
    /\ \E usb \in FilesOfSeconds, lsb \in FilesOfSeconds :
           files = [p \in Paths |-> IF p = 1 THEN usb ELSE IF p = 2 THEN lsb ELSE NoFile]
    /\ \E it \in {None, 1000}, j \in {"inner", "outer"}, i \in Interface,
          fr \in FreqRange \cup {"upper"}, sb \in SignalSBArgs, ch \in SignalChanArgs :
           dargs = [integ_time |-> it, join |-> j, chassis |-> 1, interface |-> i,
                    freq_range |-> fr, signal_sb |-> sb, signal_chan |-> ch]
    /\ dpc = "check"
    /\ da = <<>>
    /\ derr = "none"
    /\ ds = <<>>

SpecCoords == InitCoords /\ [][OpenVdifsCall]_vars

\* auto() has set the flag and decodes the four capture files, each of 0 to
\* MaxSeconds whole seconds recorded at 1000 ms, with every combination of
\* the signal arguments, of integrate and of an inner or outer join.
InitRecords ==
    /\ NoCapture
    /\ NoSession
    /\ files \in [Paths -> FilesOfSeconds]
    /\ \E j \in {"inner", "outer"}, si \in {Nothing, Some(1), Some(2)},
          sb \in {Nothing, Some(<<"U", "S", "B">>)}, ch \in {Nothing, Some(0)},
          ig \in BOOLEAN :
           dargs = [chassis |-> 1, freq_range_if1 |-> "inner", freq_range_if2 |-> "outer",
                    integ_time |-> 1000, join |-> j, signal_if |-> si, signal_sb |-> sb,
                    signal_chan |-> ch, integrate |-> ig]
    /\ dpc = "if1"
    /\ da = <<>>
    /\ derr = "none"
    /\ ds = <<>>

SpecRecords == InitRecords /\ [][DecodeRecords]_vars

\* ------------------------------------------------------------------- claims

\* The frames of worker w's datagram number k in the files.
Stored(w, k) ==
    {<<p, i>> \in Paths \X (1..(MaxDatagrams + MaxDatagramsDump + 1)) :
        /\ i <= Len(files[p].data)
        /\ files[p].data[i].by = w
        /\ files[p].data[i].no = k}

\* C1: a datagram delivered to a worker whose length differs from 1,056 bytes
\* (shorter or longer) leaves nothing in the worker's output file, and the
\* worker goes on with the next receive.
C1_OnlyFramesWritten ==
    \A w \in Workers : \A k \in 1..Len(rx[w]) :
        rx[w][k] # VDIF_FRAME_BYTES => Stored(w, k) = {}

\* C2: auto() reads a capture file (open_vdifs) only after all four workers
\* have ended and closed their files: no file is read while its writer runs.
C2_DecodeAfterWorkers ==
    [][nread' # nread =>
          \A w \in Workers : Terminated(w) /\ ~fileOpen[w]]_vars

\* C3: when a worker has failed, auto() requests cancellation and ends by
\* raising the failure; it never returns a result as after a capture that
\* succeeded.
C3_FailurePropagates ==
    \A w \in Workers :
        (apc = "finished" /\ pc[w] = "failed") => cancel /\ ~Returned

\* C4: dump() with overwrite false on a path that exists raises
\* FileExistsError in its first step: no socket and no file has been opened
\* by it, and the file system is left as it was, so the file of an earlier
\* capture to that path stays intact.
C4_ExistingPathRefused ==
    /\ [](\A w \in Workers :
            err[w] = "FileExistsError" =>
                pc[w] = "failed" /\ ~fileOpen[w] /\ ~sockOpen[w] /\ rx[w] = <<>>)
    /\ [][\A w \in Workers :
            (pc[w] = "start" /\ pc'[w] # "start" /\ ~overwrite /\ files[vdif[w]].exists) =>
                /\ pc'[w] = "failed"
                /\ err'[w] = "FileExistsError"
                /\ files' = files
                /\ fileOpen' = fileOpen
                /\ sockOpen' = sockOpen]_vars

\* A second session is refused at the path where the first has stored a frame.
C4_Witness ==
    /\ err[2] = "FileExistsError"
    /\ ~overwrite
    /\ files[vdif[2]].data # <<>>
    /\ files[vdif[2]].data[1].by = 1

\* The existence check of session w let it through.
Passed(w) == pc[w] \in {"open", "bind", "loop", "recv", "done"} \/ err[w] \in {"OSError", "TimeoutError"}

\* C5: of two dump() calls with overwrite false on the same path at most one
\* passes the existence check, in every interleaving; the two never both open
\* and write the file.
C5_OneSessionPerPath ==
    \A v \in Workers, w \in Workers :
        (v # w /\ vdif[v] = vdif[w] /\ ~overwrite) => ~(Passed(v) /\ Passed(w))

\* C6: auto() sets the shared event exactly once, at the end of the wait: when
\* the duration has elapsed or when a KeyboardInterrupt has ended the wait;
\* the event is never cleared and no step of a worker changes it.
C6_CancelSetOnce ==
    /\ [](/\ cancelSets <= 1
          /\ cancel <=> cancelSets = 1
          /\ cancel => cancelBy = "auto"
          /\ apc \in {"wait", "except"} => ~cancel
          /\ apc \in {"read", "exit", "finished"} => cancel)
    /\ [][/\ cancel => cancel'
          /\ (~cancel /\ cancel') =>
                 \/ apc = "wait" /\ elapsed = Duration
                 \/ apc = "except" /\ elapsed < Duration
          /\ (\E w \in Workers : Dump(w)) => UNCHANGED cvars]_vars

\* An interrupted auto() has set the event once and has ended.
C6_Witness == apc = "finished" /\ Interrupted /\ cancelSets = 1

\* C7 as claimed: a worker that leaves its loop because the event is set has
\* performed a receive before, also when the event was set before it reached
\* the loop.
C7_ReceiveBeforeCheck ==
    \A w \in Workers : pc[w] = "done" => rx[w] # <<>>

\* C7, amended: the event is looked at before every receive, the first one
\* included, and never during a receive: at the loop test a worker leaves
\* without a receive if the event is set and starts a receive otherwise; a
\* receive ends only with a datagram or a timeout, and is followed by the
\* loop test.
C7_CheckBeforeEachReceive ==
    [][\A w \in Workers :
          /\ (pc[w] = "loop" /\ pc'[w] # "loop" /\ useCancel /\ cancel) =>
                 pc'[w] = "done" /\ rx'[w] = rx[w]
          /\ (pc[w] = "loop" /\ pc'[w] # "loop" /\ ~(useCancel /\ cancel)) =>
                 pc'[w] = "recv"
          /\ (pc[w] = "recv" /\ pc'[w] # "recv") =>
                 \/ pc'[w] = "loop" /\ Len(rx'[w]) = Len(rx[w]) + 1
                 \/ pc'[w] = "failed" /\ err'[w] = "TimeoutError"
          /\ rx'[w] # rx[w] => pc[w] = "recv"]_vars

\* A worker has left the loop without any receive.
C7_Witness == \E w \in Workers : pc[w] = "done" /\ rx[w] = <<>>

\* C8: with a receive timeout configured, once the event is set every worker
\* leaves its loop and ends, and the pool of auto() shuts down.
C8_WorkersStop ==
    (hasTimeout /\ cancel) ~> (apc = "finished" /\ \A w \in Workers : Terminated(w))

\* The pool has shut down after one worker saw the event and another timed out.
C8_Witness ==
    /\ hasTimeout
    /\ apc = "finished"
    /\ \E v \in Workers, w \in Workers : pc[v] = "done" /\ err[w] = "TimeoutError"

\* C9: the step in which a worker fails (timeout, socket error) changes
\* nothing of its siblings, of their files or of the event; a sibling at its
\* loop test goes on to receive as long as the event is not set.
C9_FailureIsLocal ==
    [][\A w \in Workers :
          /\ (pc[w] # "failed" /\ pc'[w] = "failed") =>
                 /\ files' = files
                 /\ cvars' = cvars
                 /\ \A v \in Workers \ {w} :
                        /\ pc'[v] = pc[v]
                        /\ err'[v] = err[v]
                        /\ rx'[v] = rx[v]
                        /\ fileOpen'[v] = fileOpen[v]
                        /\ sockOpen'[v] = sockOpen[v]
          /\ (pc[w] = "loop" /\ pc'[w] # "loop" /\ ~cancel) => pc'[w] = "recv"]_vars

\* One worker has failed with a transport error; a sibling, not cancelled,
\* has stored a frame and is receiving.
C9_Witness ==
    \E v \in Workers, w \in Workers :
        /\ v # w
        /\ err[w] \in {"TimeoutError", "OSError"}
        /\ ~cancel
        /\ pc[v] = "recv"
        /\ Len(files[vdif[v]].data) = 1

\* C10: a worker that has opened its file and socket holds both until it
\* ends, and has closed both when it has ended, whatever the exit path.
C10_ResourcesReleased ==
    \A w \in Workers :
        /\ Terminated(w) => ~fileOpen[w] /\ ~sockOpen[w]
        /\ pc[w] \in {"bind", "loop", "recv"} => fileOpen[w] /\ sockOpen[w]
        /\ pc[w] \in {"start", "open", "idle"} => ~fileOpen[w] /\ ~sockOpen[w]

\* Workers have ended on each exit path: event observed, timeout, bind error.
C10_Witness ==
    \E a \in Workers, b \in Workers, c \in Workers :
        pc[a] = "done" /\ err[b] = "TimeoutError" /\ err[c] = "OSError"

\* Worker w has opened (created or truncated) its output file.
Opened(w) ==
    \/ pc[w] \in {"bind", "loop", "recv", "done"}
    \/ pc[w] = "failed" /\ err[w] # "FileExistsError"

\* The frames worker w keeps of the datagrams lens, in receive order: those
\* of which the receive returned 1,056 bytes.
RECURSIVE Kept(_, _)
Kept(w, lens) ==
    IF lens = <<>> THEN <<>>
    ELSE LET k == Len(lens)
             n == recvfrom(lens[k], VDIF_FRAME_BYTES)
             head == Kept(w, SubSeq(lens, 1, k - 1))
         IN  IF n = VDIF_FRAME_BYTES THEN Append(head, Frame(w, k, n)) ELSE head

BuiltFrom(i, sec, n, e, fl) ==
    <<files[1].data[i].word_0, files[1].data[i].word_1>> = Header(sec, n, e, fl)

\* origin + 6 months * e + 1 s * sec + p ms * (n div 2), as days, seconds of
\* the day and milliseconds since the origin.
ExpectedTime(sec, n, e, p) ==
    LET secs == sec + ((n \div 2) \div (1000 \div p))
    IN  <<DaysBefore(e) + (secs \div 86400), secs % 86400,
          ((n \div 2) % (1000 \div p)) * p>>

\* The rows of the k-th returned array that hold the samples of frame i.
RowsOf(k, i) ==
    {j \in 1..Len(da[k].rows) : da[k].rows[j].first = i \/ da[k].rows[j].second = i}

\* C12: for every integration time p of {100, 200, 500, 1000} and every frame
\* built with seconds in bits [0,30) of word 0, frame number n in bits [0,24)
\* and reference epoch in bits [24,30) of word 1, open_vdif puts the frame at
\* the time origin + 6 months * ref_epoch + 1 s * seconds + p ms * (n div 2);
\* with the outer join every frame gets a time.
C12_TimestampFormula ==
    \A k \in 1..Len(da) :
        da[k].err = "none" =>
            \A i \in 1..Len(files[1].data) :
                /\ dargs.join = "outer" => RowsOf(k, i) # {}
                /\ \A sec \in SecondsSet, n \in FrameNumSet, e \in RefEpochSet, fl \in FlagSet :
                       BuiltFrom(i, sec, n, e, fl) =>
                           \A j \in RowsOf(k, i) :
                               da[k].rows[j].time = ExpectedTime(sec, n, e, dargs.integ_time)

\* A frame with every field at its maximum and the flag bits set has been
\* decoded at 1000 ms next to a frame of the first second.
C12_Witness ==
    /\ dpc = "decoded"
    /\ da[1].err = "none"
    /\ dargs.integ_time = 1000
    /\ Len(files[1].data) = 2
    /\ BuiltFrom(1, 2 ^ 30 - 1, 2 ^ 24 - 1, 63, 1)
    /\ BuiltFrom(2, 1, 2, 0, 0)
    /\ \E j \in RowsOf(1, 1) :
           da[1].rows[j].time = ExpectedTime(2 ^ 30 - 1, 2 ^ 24 - 1, 63, 1000)
    /\ \E j \in RowsOf(1, 2) : da[1].rows[j].time = <<0, 2, 0>>

\* C13: the channel half of a frame depends on the parity of its frame number
\* only: the samples of a frame with an even number are on channels 0-255
\* and never on 256-511, those of a frame with an odd number on 256-511 and
\* never on 0-255, whatever its position in the file, seconds and epoch.
C13_HalfByParity ==
    \A k \in 1..Len(da) :
        da[k].err = "none" =>
            \A i \in 1..Len(files[1].data) :
                \A sec \in SecondsSet, n \in FrameNumSet, e \in RefEpochSet, fl \in FlagSet :
                    BuiltFrom(i, sec, n, e, fl) =>
                        /\ dargs.join = "outer" => RowsOf(k, i) # {}
                        /\ \A j \in 1..Len(da[k].rows) :
                               /\ n % 2 = 0 => da[k].rows[j].second # i
                               /\ n % 2 = 1 => da[k].rows[j].first # i

\* The first frame of the file is odd, the second even, with different
\* seconds and epochs; both are in the array, each in its half.
C13_Witness ==
    /\ dpc = "decoded"
    /\ da[1].err = "none"
    /\ Len(files[1].data) = 2
    /\ BuiltFrom(1, 1, 2 ^ 24 - 1, 63, 1)
    /\ BuiltFrom(2, 2 ^ 30 - 1, 2, 0, 0)
    /\ \E j \in 1..Len(da[1].rows) : da[1].rows[j].second = 1
    /\ \E j \in 1..Len(da[1].rows) : da[1].rows[j].first = 2

\* The frame number with which the i-th frame of the file at path 1 was
\* built, in a file whose frames have the epoch 0 and no flag: word 1 holds
\* nothing else.
NumOf(i) == files[1].data[i].word_1

\* The largest frame number of the file at path 1, and how many frames carry it.
MaxNum ==
    CHOOSE m \in 0..19 :
        /\ \E i \in 1..Len(files[1].data) : NumOf(i) = m
        /\ \A i \in 1..Len(files[1].data) : NumOf(i) <= m

AtMax == Cardinality({i \in 1..Len(files[1].data) : NumOf(i) = MaxNum})

\* The integration times of the four maxima.
InferTable == [m \in {19, 9, 3, 1} |-> 2000 \div (m + 1)]

\* C14: with no integration time supplied, the integration time inferred from
\* a file in which at least two frames carry the largest frame number is
\* 2000 / (largest + 1) ms: 100 for 19, 200 for 9, 500 for 3, 1000 for 1; with
\* one frame at the largest number the inference fails with RuntimeError.
C14_Inference ==
    (dargs.integ_time = None /\ files[1].data # <<>>) =>
        /\ (AtMax >= 2 /\ MaxNum \in {19, 9, 3, 1}) =>
               /\ infer_integ_time(FieldOf(files[1].data, frame_num))
                      = [err |-> "none", value |-> InferTable[MaxNum]]
               /\ InferTable[MaxNum] * (MaxNum + 1) = 2000
               /\ InferTable[19] = 100 /\ InferTable[9] = 200
               /\ InferTable[3] = 500 /\ InferTable[1] = 1000
        /\ AtMax = 1 =>
               infer_integ_time(FieldOf(files[1].data, frame_num)).err = "RuntimeError"
        /\ \A k \in 1..Len(da) :
               /\ AtMax = 1 => da[k].err = "RuntimeError"
               /\ AtMax >= 2 => da[k].err # "RuntimeError"
               /\ (AtMax >= 2 /\ da[k].err = "none") =>
                      da[k].integ_time * (MaxNum + 1) = 2000

\* A file with the frame number 19 in two seconds and a frame 9 has been
\* decoded with the inferred integration time of 100 ms.
C14_Witness ==
    /\ dargs.integ_time = None
    /\ dpc = "decoded"
    /\ Len(files[1].data) = 3
    /\ MaxNum = 19 /\ AtMax = 2
    /\ \E i \in 1..3 : NumOf(i) = 9
    /\ da[1].err = "none"
    /\ da[1].integ_time = 100

\* C15: open_vdif raises ValueError whenever the integration time it was
\* given, or the one it inferred, is none of 100, 200, 500, 1000; the failed
\* inference (one frame at the largest number) raises RuntimeError instead, and
\* nothing else does; a returned array carries the given or inferred value,
\* which is one of the four.
C15_Validation ==
    \A k \in 1..Len(da) :
        /\ (dargs.integ_time # None /\ dargs.integ_time \notin IntegTime) =>
               da[k].err = "ValueError"
        /\ (dargs.integ_time = None /\ files[1].data # <<>> /\ AtMax >= 2
              /\ 2000 \div (MaxNum + 1) \notin IntegTime) =>
               da[k].err = "ValueError"
        /\ da[k].err = "RuntimeError" <=>
               (dargs.integ_time = None /\ files[1].data # <<>> /\ AtMax = 1)
        /\ da[k].err = "none" =>
               /\ da[k].integ_time \in IntegTime
               /\ dargs.integ_time # None => da[k].integ_time = dargs.integ_time
               /\ dargs.integ_time = None => da[k].integ_time = 2000 \div (MaxNum + 1)

\* Two frames carry the largest number 2, from which 666 is inferred: the
\* call has raised ValueError.
C15_Witness ==
    /\ dargs.integ_time = None
    /\ dpc = "decoded"
    /\ Len(files[1].data) = 2
    /\ MaxNum = 2 /\ AtMax = 2
    /\ da[1].err = "ValueError"

\* C16: whenever the integration times open_vdif resolved for the USB file
\* and for the LSB file differ, open_vdifs ends with the RuntimeError of the
\* mismatch and returns no dataset.
C16_MismatchRefused ==
    (Len(da) = 2 /\ da[1].integ_time # da[2].integ_time /\ dpc # "align") =>
        dpc = "raised" /\ derr = "RuntimeError" /\ ds = <<>>

\* The times (in ms of the one second of the file at path 1, at 100 ms) of
\* the frames of one parity, by the frame numbers the file was built with.
TimesOfParity(par) ==
    {100 * (NumOf(i) \div 2) : i \in {j \in 1..Len(files[1].data) : NumOf(j) % 2 = par}}

\* The rows of the k-th array at the time of ms milliseconds.
RowsAt(k, ms) == {j \in 1..Len(da[k].rows) : da[k].rows[j].time = <<0, 0, ms>>}

\* C17: with the inner join and 100 ms, open_vdif returns exactly one row for
\* every time that occurs among the even and among the odd frames of the
\* file, the row holding the samples of an even frame of that time on
\* channels 0-255 and of an odd frame of that time on channels 256-511, and
\* no other row: a frame whose other half is missing gives no row.
C17_InnerJoinRows ==
    (dargs.join = "inner" /\ dargs.integ_time = 100) =>
        \A k \in 1..Len(da) :
            /\ da[k].err = "none"
            /\ \A ms \in TimesOfParity(0) \cap TimesOfParity(1) :
                   Cardinality(RowsAt(k, ms)) = 1
            /\ \A j \in 1..Len(da[k].rows) :
                   LET r == da[k].rows[j] IN
                   /\ \E ms \in TimesOfParity(0) \cap TimesOfParity(1) : r.time = <<0, 0, ms>>
                   /\ r.first # NaN /\ NumOf(r.first) % 2 = 0
                   /\ r.second # NaN /\ NumOf(r.second) % 2 = 1
                   /\ Time(files[1].data[r.first], 100) = r.time
                   /\ Time(files[1].data[r.second], 100) = r.time

\* C18: a file all of whose frames have the same parity of the frame number
\* cannot be decoded: open_vdif fails and returns no array.
C18_BothHalvesRequired ==
    (/\ files[1].data # <<>>
     /\ \E par \in {0, 1} : \A i \in 1..Len(files[1].data) : NumOf(i) % 2 = par) =>
        \A k \in 1..Len(da) : da[k].err # "none"

InvalidCall ==
    \/ aargs.chassis \notin Chassis
    \/ aargs.freq_range_if1 \notin FreqRange
    \/ aargs.freq_range_if2 \notin FreqRange
    \/ aargs.integ_time \notin IntegTime
    \/ aargs.append /\ overwrite
    \/ (aargs.zarr_if1 \/ aargs.zarr_if2) /\ ~aargs.append /\ ~overwrite

\* C20: auto() called with an invalid chassis, frequency range or integration
\* time, with append and overwrite both enabled, or with an existing zarr target
\* while neither is enabled, raises immediately: the only step such a call
\* takes is the one that raises ValueError or FileExistsError, and at no time
\* has a settings command been run, a dump worker been started or a file been
\* opened or changed.
C20_InvalidCallRaisesFirst ==
    /\ [](InvalidCall =>
            /\ apc \in {"called", "raised"}
            /\ apc = "raised" => aerr \in {"ValueError", "FileExistsError"}
            /\ commands = 0
            /\ \A w \in Workers : pc[w] = "idle" /\ ~fileOpen[w] /\ ~sockOpen[w])
    /\ [][InvalidCall =>
            /\ apc = "called" /\ apc' = "raised"
            /\ files' = files
            /\ pc' = pc]_vars

\* A call with only its second zarr target in the way, settings enabled, has
\* been refused with FileExistsError.
C20_Witness ==
    /\ apc = "raised"
    /\ aerr = "FileExistsError"
    /\ aargs.zarr_if2 /\ ~aargs.zarr_if1
    /\ aargs.settings
    /\ aargs.chassis = 1
    /\ commands = 0

\* C21: whenever open_vdifs returns, its signal_sb and signal_chan coordinates
\* are as long as the time axis and every entry equals the supplied value, or
\* 'NA' (signal_sb) and -1 (signal_chan) when the argument was not supplied.
C21_SignalCoords ==
    dpc = "returned" =>
        /\ Len(ds[1].signal_sb) = Len(ds[1].time)
        /\ Len(ds[1].signal_chan) = Len(ds[1].time)
        /\ \A i \in 1..Len(ds[1].time) :
              /\ dargs.signal_sb # <<>> => ds[1].signal_sb[i] = dargs.signal_sb[1]
              /\ dargs.signal_sb = <<>> => ds[1].signal_sb[i] = <<"N", "A">>
              /\ dargs.signal_chan # <<>> => ds[1].signal_chan[i] = dargs.signal_chan[1]
              /\ dargs.signal_chan = <<>> => ds[1].signal_chan[i] = 0 - 1

\* A dataset of two time samples has been returned for the LSB channel 0.
C21_Witness ==
    /\ dpc = "returned"
    /\ Len(ds[1].time) = 2
    /\ dargs.signal_sb = <<(<<"L", "S", "B">>)>>
    /\ dargs.signal_chan = <<0>>
    /\ ds[1].signal_chan = <<0, 0>>

\* C22: whenever open_vdifs returns, the channel axis is 0..511 ascending and
\* channel k has the frequency k x 0.02 GHz for the inner range and
\* (1023 - k) x 0.02 GHz for the outer range (frequencies in units of 0.01 GHz).
C22_FreqOfChannel ==
    dpc = "returned" =>
        /\ Len(ds[1].chan) = 512
        /\ Len(ds[1].freq) = 512
        /\ \A k \in 0..511 :
              /\ ds[1].chan[k + 1] = k
              /\ dargs.freq_range = "inner" => ds[1].freq[k + 1] = k * 2
              /\ dargs.freq_range = "outer" => ds[1].freq[k + 1] = (1023 - k) * 2

\* A dataset of the outer range has been returned: 20.46 GHz at channel 0,
\* 10.24 GHz at channel 511.
C22_Witness ==
    /\ dpc = "returned"
    /\ dargs.freq_range = "outer"
    /\ ds[1].freq[1] = 2046
    /\ ds[1].freq[512] = 1024
    /\ Len(ds[1].time) > 0

\* C23: send_commands_in(path, ...) performs the same sequence of socket sends
\* and receives as send_commands(lines, ...) called with the command lines of
\* the file: once both calls have returned, what the two sockets sent and
\* received is the same.
C23_SameTraffic == call = "done" => wire["file"] = wire["lines"]

\* The number of frames in the output file of worker w.
FramesOf(w) == Len(files[vdif[w]].data)

\* C24: once the cancellation flag has been set, each dump worker appends at
\* most one further frame to its output file: from any state in which the
\* flag is set and the file of a worker holds n frames, the file never holds
\* more than n + 1 frames, whatever the interleaving.
C24_OneFrameAfterCancel ==
    \A w \in Workers : \A n \in 0..MaxDatagramsLoop :
        []((cancel /\ FramesOf(w) = n) => [](FramesOf(w) <= n + 1))

\* The flag is set and two workers have left their loops on it: one with the
\* single frame it received in its file, the other with an empty file.
C24_Witness ==
    \E w \in Workers :
        /\ cancel
        /\ pc[w] = "done"
        /\ FramesOf(w) = 1
        /\ Len(rx[w]) = 1
        /\ \E v \in Workers \ {w} : pc[v] = "done" /\ FramesOf(v) = 0

\* C25: a keyboard interrupt during the wait of auto() does not abort the
\* acquisition: whenever auto() has come past its decoding after an interrupt,
\* the cancellation flag is set, no exception is under way and both interfaces
\* have been decoded and stored, so that auto() returns the two paths.
C25_InterruptAbsorbed ==
    (Interrupted /\ apc \in {"exit", "finished"}) =>
        /\ cancel
        /\ aerr = "none"
        /\ nread = 2

\* The frame numbers of the file at path 1, the largest of them, and how many
\* frames carry it.
FrameNums == {NumOf(i) : i \in 1..Len(files[1].data)}

TopNum == CHOOSE m \in FrameNums : \A n \in FrameNums : n <= m

TopCount == Cardinality({i \in 1..Len(files[1].data) : NumOf(i) = TopNum})

\* C26: infer_integ_time returns a value only when at least two frames carry
\* the largest frame number and that number is 1, 3, 9 or 19, and then the
\* value times (largest + 1) is 2000; with at least two frames at any other
\* largest number it raises ValueError, and so does open_vdif: no quotient is
\* rounded to one of the four integration times.
C26_ExactMaximaOnly ==
    files[1].data # <<>> =>
        LET r == infer_integ_time(FieldOf(files[1].data, frame_num)) IN
        /\ r.err = "none" =>
               /\ TopCount >= 2
               /\ TopNum \in {1, 3, 9, 19}
               /\ r.value * (TopNum + 1) = 2000
        /\ (TopCount >= 2 /\ TopNum \in {1, 3, 9, 19}) => r.err = "none"
        /\ (TopCount >= 2 /\ TopNum \notin {1, 3, 9, 19}) => r.err = "ValueError"
        /\ \A k \in 1..Len(da) :
               /\ da[k].err = "none" =>
                      TopCount >= 2 /\ da[k].integ_time * (TopNum + 1) = 2000
               /\ (TopCount >= 2 /\ TopNum \notin {1, 3, 9, 19}) =>
                      da[k].err = "ValueError"

\* Two frames carry the largest number 18 (2000 / 19 is no integer), a third
\* the number 9: the call has raised ValueError.
C26_Witness ==
    /\ dpc = "decoded"
    /\ Len(files[1].data) = 3
    /\ TopNum = 18 /\ TopCount = 2
    /\ 9 \in FrameNums
    /\ da[1].err = "ValueError"

\* The seconds and the frame pair (frame number div 2) of the i-th frame of
\* the file at path 1, whose frames are of epoch 0 and carry no flag.
PairOf(i) == <<files[1].data[i].word_0, files[1].data[i].word_1 \div 2>>

\* Every frame number of the file is below 2000 / integ_time.
WithinSecond ==
    \A i \in 1..Len(files[1].data) :
        files[1].data[i].word_1 * dargs.integ_time < 2000

\* C27: in open_vdif with integration time p, for frames of one ref_epoch whose
\* frame numbers are all below 2000 / p, two frames get the same timestamp
\* exactly when they are the frames 2k and 2k+1 of the same second (or the
\* same frame), so that every time row of a decoded array stems from exactly
\* one (seconds, frame pair).
C27_OnePairPerTime ==
    WithinSecond =>
        /\ \A i, j \in 1..Len(files[1].data) :
               (Time(files[1].data[i], dargs.integ_time)
                    = Time(files[1].data[j], dargs.integ_time))
                  <=> (PairOf(i) = PairOf(j))
        /\ \A k \in 1..Len(da) : \A r \in 1..Len(da[k].rows) :
               Cardinality({PairOf(i) : i \in
                   {x \in 1..Len(files[1].data) :
                       Time(files[1].data[x], dargs.integ_time) = da[k].rows[r].time}}) = 1

\* The frames 18 and 19 of second 0 at 100 ms have been decoded into one row,
\* 900 ms into the second.
C27_Witness ==
    /\ dpc = "decoded"
    /\ dargs.integ_time = 100
    /\ Len(files[1].data) = 2
    /\ PairOf(1) = <<0, 9>> /\ PairOf(2) = <<0, 9>>
    /\ files[1].data[1].word_1 # files[1].data[2].word_1
    /\ da[1].err = "none"
    /\ Len(da[1].rows) = 1
    /\ da[1].rows[1].time = <<0, 0, 900>>

\* The signal coordinates the record of interface i is to carry at every time
\* sample: the supplied values (the sentinel for one not supplied) when i is
\* signal_if, the sentinels otherwise.
ExpectedSB(i) ==
    IF dargs.signal_if = <<i>> /\ dargs.signal_sb # <<>>
    THEN dargs.signal_sb[1] ELSE <<"N", "A">>

ExpectedChan(i) ==
    IF dargs.signal_if = <<i>> /\ dargs.signal_chan # <<>>
    THEN dargs.signal_chan[1] ELSE 0 - 1

\* C28: in auto(), the supplied signal_sb and signal_chan are attached only to
\* the record of the interface whose number is signal_if; the record of the
\* other interface, and both records when signal_if is None, carry 'NA' and
\* -1 at every time sample.
C28_SignalOnlyOnItsInterface ==
    dpc = "returned" =>
        \A i \in 1..2 : \A t \in 1..Len(ds[i].time) :
            /\ ds[i].signal_sb[t] = ExpectedSB(i)
            /\ ds[i].signal_chan[t] = ExpectedChan(i)

\* The offset from the LO, in units of 0.01 GHz, of the frequency that the
\* FREQ:CW command of cw.on asks of the signal generator, times lo_mult.
OffsetSent ==
    LET sg_freq == wire["on"][3][2][2]
    IN  IF sg_freq.num >= dargs.lo_freq
        THEN sg_freq.num - dargs.lo_freq ELSE dargs.lo_freq - sg_freq.num

\* C29: for each frequency range and every signal channel c in 0..511, the IF
\* offset from the LO to which cw.on tunes the signal generator for channel c
\* equals the freq coordinate that open_vdifs and open_csvs assign to channel
\* c for the same frequency range.
C29_ToneOnItsChannel ==
    (call = "done" /\ dpc = "sending") =>
        OffsetSent = FreqOf(dargs.freq_range)[dargs.signal_chan + 1]

\* The number the row of the CSV file read for the cell (time t, channel c)
\* of the returned dataset has in the column col.
CsvCell(t, c, col) ==
    LET df == ReadCsv(dargs.csv)
        freqs == Ascending({df[i][COL_FREQ] : i \in DOMAIN df})
        i == CHOOSE k \in DOMAIN df : /\ df[k][COL_TIME] = ds.time[t]
                                      /\ df[k][COL_FREQ] = freqs[c]
    IN  df[i][col]

HasRow(t, c) ==
    LET df == ReadCsv(dargs.csv)
        freqs == Ascending({df[i][COL_FREQ] : i \in DOMAIN df})
    IN  \E k \in DOMAIN df : /\ df[k][COL_TIME] = ds.time[t]
                              /\ df[k][COL_FREQ] = freqs[c]

\* C30: open_csv_autos returns, in every (time, channel) cell, auto_usb equal
\* to the USB column (out0) of the CSV file and auto_lsb equal to its LSB
\* column (out1).
C30_EachSidebandItsColumn ==
    dpc = "returned" =>
        \A t \in DOMAIN ds.time : \A c \in DOMAIN ds.chan :
            HasRow(t, c) =>
                /\ ds.auto_usb[t][c] = CsvCell(t, c, COL_USB)
                /\ ds.auto_lsb[t][c] = CsvCell(t, c, COL_LSB)

====
